---- MODULE Spec2Model ----
(***************************************************************************)
(* A model of nih-sftp-server.c, a version 3 SFTP server that reads        *)
(* length-prefixed request packets from stdin and writes at most one       *)
(* response packet per request to stdout.                                  *)
(*                                                                         *)
(* Buffers are modelled byte by byte.  A buffer is a record                *)
(*   [data, pos, count, ok]                                                *)
(* where data holds the bytes of the array that have been written, pos is  *)
(* the offset p_data - data, count is the struct's count field and ok is   *)
(* FALSE once an assert() over the buffer has failed (the process aborts). *)
(* Host system calls are nondeterministic: each request is processed with  *)
(* a host outcome record chosen from a small set.                          *)
(***************************************************************************)
EXTENDS Integers, Sequences, FiniteSets, TLC

\* ------------------------------------------------------------------------
\* Protocol constants (draft-ietf-secsh-filexfer-02)
SSH_FXP_INIT == 1
SSH_FXP_VERSION == 2
SSH_FXP_OPEN == 3
SSH_FXP_CLOSE == 4
SSH_FXP_READ == 5
SSH_FXP_WRITE == 6
SSH_FXP_LSTAT == 7
SSH_FXP_FSTAT == 8
SSH_FXP_SETSTAT == 9
SSH_FXP_FSETSTAT == 10
SSH_FXP_OPENDIR == 11
SSH_FXP_READDIR == 12
SSH_FXP_REMOVE == 13
SSH_FXP_MKDIR == 14
SSH_FXP_RMDIR == 15
SSH_FXP_REALPATH == 16
SSH_FXP_STAT == 17
SSH_FXP_RENAME == 18
SSH_FXP_READLINK == 19
SSH_FXP_SYMLINK == 20
SSH_FXP_STATUS == 101
SSH_FXP_HANDLE == 102
SSH_FXP_DATA == 103
SSH_FXP_NAME == 104
SSH_FXP_ATTRS == 105

SSH_FX_OK == 0
SSH_FX_EOF == 1
SSH_FX_NO_SUCH_FILE == 2
SSH_FX_PERMISSION_DENIED == 3
SSH_FX_FAILURE == 4
SSH_FX_BAD_MESSAGE == 5
SSH_FX_OP_UNSUPPORTED == 8

SSH_FILEXFER_ATTR_SIZE == 1
SSH_FILEXFER_ATTR_UIDGID == 2
SSH_FILEXFER_ATTR_PERMISSIONS == 4
SSH_FILEXFER_ATTR_ACMODTIME == 8
\* 0x80000000 as a 32-bit pattern (see the integer helpers below)
SSH_FILEXFER_ATTR_EXTENDED == (0 - 2147483647) - 1

MAX_ATTRS_BYTES == 32
SFTP_PROTOCOL_VERSION == 3
DEFAULT_FILE_PERM == 438
DEFAULT_DIR_PERM == 511
MAX_PACKET == 34000
PERM_MASK == 511
MAX_HANDLES == 99
MAX_HANDLE_DIGITS == 2

\* Host errno values used by errno_to_sftp (Linux numbering)
EPERM == 1
ENOENT == 2
EIO == 5
EBADF == 9
EACCES == 13
EFAULT == 14
ENOTDIR == 20
EINVAL == 22
EMFILE == 24
ENAMETOOLONG == 36
ELOOP == 40

\* ------------------------------------------------------------------------
\* Integer helpers.  A uint32_t is carried as the 32-bit integer with the same
\* bit pattern: values of 2^31 and above appear as value - 2^32 (negative), so
\* that every uint32_t fits the model checker's integers.  A uint64_t is a
\* record [hi, lo] of two such words.
Pow2(n) == 2 ^ n

\* unsigned a <= b and a > b on 32-bit patterns
ULe(a, b) == IF (a < 0) = (b < 0) THEN a <= b ELSE b < 0

UGt(a, b) == ~ULe(a, b)

\* bit b (a power of two) of flags f: the C expression (f & b) != 0
HasBit(f, b) == IF b < 0 THEN f < 0 ELSE (f \div b) % 2 = 1

\* The four bytes put_uint32 stores for data, most significant first
BE32(data) ==
    << (data \div Pow2(24)) % 256, (data \div Pow2(16)) % 256,
       (data \div Pow2(8)) % 256, data % 256 >>

\* The value get_uint32 computes from four bytes
FromBE32(b) ==
    (IF b[1] >= 128 THEN b[1] - 256 ELSE b[1]) * Pow2(24)
    + b[2] * Pow2(16) + b[3] * Pow2(8) + b[4]

\* An SSH string as a client puts it on the wire
WireStr(s) == BE32(Len(s)) \o s

\* Bytes beyond what the last read() stored: left over from an earlier packet
STALE == 0 - 1

\* data[off+1 .. off+n] of a byte array, STALE where nothing was stored
Peek(data, off, n) ==
    IF off + n <= Len(data) THEN SubSeq(data, off + 1, off + n)
    ELSE IF off >= Len(data) THEN [i \in 1..n |-> STALE]
    ELSE SubSeq(data, off + 1, Len(data)) \o [i \in 1..(off + n - Len(data)) |-> STALE]

\* the byte array after storing bs at offset off (memcpy / direct stores)
Poke(data, off, bs) ==
    IF off <= Len(data)
    THEN SubSeq(data, 1, off) \o bs \o SubSeq(data, off + Len(bs) + 1, Len(data))
    ELSE data \o [i \in 1..(off - Len(data)) |-> 0] \o bs

\* strlen-style view: the bytes at offset off up to the first NUL
RECURSIVE CStrLen(_, _)
CStrLen(data, off) ==
    IF off + 1 > Len(data) \/ data[off + 1] = 0 THEN 0
    ELSE 1 + CStrLen(data, off + 1)

CStr(data, off) == Peek(data, off, CStrLen(data, off))

\* ------------------------------------------------------------------------
\* Input buffer codec (get_*).  Each returns [v |-> value, ib |-> buffer].
get_byte(ib) ==
    IF ib.ok /\ ib.count > 0
    THEN [v |-> Peek(ib.data, ib.pos, 1)[1],
          ib |-> [ib EXCEPT !.count = @ - 1, !.pos = @ + 1]]
    ELSE [v |-> 0, ib |-> [ib EXCEPT !.ok = FALSE]]

get_uint32(ib) ==
    IF ib.ok /\ ib.count >= 4
    THEN [v |-> FromBE32(Peek(ib.data, ib.pos, 4)),
          ib |-> [ib EXCEPT !.count = @ - 4, !.pos = @ + 4]]
    ELSE [v |-> 0, ib |-> [ib EXCEPT !.ok = FALSE]]

get_uint64(ib) ==
    LET Low(hi) ==
            LET Both(lo) == [v |-> [hi |-> hi.v, lo |-> lo.v], ib |-> lo.ib]
            IN  Both(get_uint32(hi.ib))
    IN  Low(get_uint32(ib))

\* memmove(p_sz, src, n); p_sz[n] = '\0'
MoveAndTerminate(data, p_sz, src, n) ==
    Poke(Poke(data, p_sz, Peek(data, src, n)), p_sz + n, <<0>>)

\* get_string: v is the offset of the returned pointer p_sz, len the string
\* length; the string is moved 4 bytes down and NUL-terminated in place.
get_string(ib) ==
    LET Rest(l) ==
            IF l.ib.ok /\ ULe(l.v, l.ib.count)
            THEN [v |-> ib.pos, len |-> l.v,
                  ib |-> [l.ib EXCEPT
                            !.data = MoveAndTerminate(@, ib.pos, l.ib.pos, l.v),
                            !.count = @ - l.v, !.pos = @ + l.v]]
            ELSE [v |-> ib.pos, len |-> 0, ib |-> [l.ib EXCEPT !.ok = FALSE]]
    IN  Rest(get_uint32(ib))

\* get_data without the assert on the length
get_data_unchecked(ib) ==
    LET Rest(l) ==
            IF l.ib.ok
            THEN [v |-> Peek(l.ib.data, l.ib.pos, l.v), len |-> l.v,
                  ib |-> [l.ib EXCEPT !.count = @ - l.v, !.pos = @ + l.v]]
            ELSE [v |-> <<>>, len |-> 0, ib |-> [l.ib EXCEPT !.ok = FALSE]]
    IN  Rest(get_uint32(ib))

\* get_data: v is the data bytes themselves (not terminated, not moved)
get_data(ib) ==
    LET Rest(l) ==
            IF l.ib.ok /\ ULe(l.v, l.ib.count)
            THEN [v |-> Peek(l.ib.data, l.ib.pos, l.v), len |-> l.v,
                  ib |-> [l.ib EXCEPT !.count = @ - l.v, !.pos = @ + l.v]]
            ELSE [v |-> <<>>, len |-> 0, ib |-> [l.ib EXCEPT !.ok = FALSE]]
    IN  Rest(get_uint32(ib))

\* ------------------------------------------------------------------------
\* Output buffer codec (put_*), buff_save and buff_swap
put_byte(ob, data) ==
    IF ob.ok /\ ob.count > 0
    THEN [ob EXCEPT !.data = Poke(@, ob.pos, <<data>>),
                    !.count = @ - 1, !.pos = @ + 1]
    ELSE [ob EXCEPT !.ok = FALSE]

put_uint32(ob, data) ==
    IF ob.ok /\ ob.count >= 4
    THEN [ob EXCEPT !.data = Poke(@, ob.pos, BE32(data)),
                    !.count = @ - 4, !.pos = @ + 4]
    ELSE [ob EXCEPT !.ok = FALSE]

put_uint64(ob, data) ==
    put_uint32(put_uint32(ob, data.hi), data.lo)

put_cstring(ob, sz_str) ==
    LET Rest(l) ==
            IF l.ok /\ Len(sz_str) <= l.count
            THEN [l EXCEPT !.data = Poke(@, l.pos, sz_str),
                           !.count = @ - Len(sz_str), !.pos = @ + Len(sz_str)]
            ELSE [l EXCEPT !.ok = FALSE]
    IN  Rest(put_uint32(ob, Len(sz_str)))

buff_save(ob) == [count |-> ob.count, pos |-> ob.pos]

\* buff_swap that exchanges the cursors and leaves the counts alone
buff_swap_cursor_only(ob, save) ==
    [ob |-> [ob EXCEPT !.pos = save.pos],
     save |-> [count |-> save.count, pos |-> ob.pos]]

\* buff_swap exchanges cursor and count of the live buffer with the saved pair
buff_swap(ob, save) ==
    [ob |-> [ob EXCEPT !.count = save.count, !.pos = save.pos],
     save |-> [count |-> ob.count, pos |-> ob.pos]]

\* ------------------------------------------------------------------------
\* Attribute codec
ZeroAttrs ==
    [flags |-> 0, permissions |-> 0, size |-> [hi |-> 0, lo |-> 0], uid |-> 0,
     gid |-> 0, atime |-> 0, mtime |-> 0]

\* while (count--) { get_string; get_string; }  (stops when an assert fails)
RECURSIVE SkipExtended(_, _)
SkipExtended(ib, count) ==
    IF count = 0 \/ ~ib.ok THEN ib
    ELSE SkipExtended(get_string(get_string(ib).ib).ib, count - 1)

\* One gated field of get_attrs: a is [v |-> attrs so far, ib |-> buffer];
\* when the flag is set the field is read from the buffer into the record.
AttrField(a, flag, field) ==
    LET Store(r) == [v |-> [a.v EXCEPT ![field] = r.v], ib |-> r.ib]
    IN  IF ~HasBit(a.v.flags, flag) THEN a
        ELSE IF field = "size" THEN Store(get_uint64(a.ib))
        ELSE Store(get_uint32(a.ib))

AttrExtended(a) ==
    LET Skip(c) == [v |-> a.v, ib |-> SkipExtended(c.ib, c.v)]
    IN  IF HasBit(a.v.flags, SSH_FILEXFER_ATTR_EXTENDED) THEN Skip(get_uint32(a.ib))
        ELSE a

AttrFlags(f) == [v |-> [ZeroAttrs EXCEPT !.flags = f.v], ib |-> f.ib]

\* get_attrs: [v |-> attrs record, ib |-> buffer]
get_attrs(ib) ==
    AttrExtended(
      AttrField(
        AttrField(
          AttrField(
            AttrField(
              AttrField(
                AttrField(AttrFlags(get_uint32(ib)), SSH_FILEXFER_ATTR_SIZE, "size"),
                SSH_FILEXFER_ATTR_UIDGID, "uid"),
              SSH_FILEXFER_ATTR_UIDGID, "gid"),
            SSH_FILEXFER_ATTR_PERMISSIONS, "permissions"),
          SSH_FILEXFER_ATTR_ACMODTIME, "atime"),
        SSH_FILEXFER_ATTR_ACMODTIME, "mtime"))

\* one gated field of put_attrs
PutIf(ob, present, data) == IF present THEN put_uint32(ob, data) ELSE ob

put_attrs(ob, p_attrs) ==
    PutIf(
      PutIf(
        PutIf(
          PutIf(
            PutIf(
              PutIf(
                PutIf(put_uint32(ob, p_attrs.flags),
                      HasBit(p_attrs.flags, SSH_FILEXFER_ATTR_SIZE), p_attrs.size.hi),
                HasBit(p_attrs.flags, SSH_FILEXFER_ATTR_SIZE), p_attrs.size.lo),
              HasBit(p_attrs.flags, SSH_FILEXFER_ATTR_UIDGID), p_attrs.uid),
            HasBit(p_attrs.flags, SSH_FILEXFER_ATTR_UIDGID), p_attrs.gid),
          HasBit(p_attrs.flags, SSH_FILEXFER_ATTR_PERMISSIONS), p_attrs.permissions),
        HasBit(p_attrs.flags, SSH_FILEXFER_ATTR_ACMODTIME), p_attrs.atime),
      HasBit(p_attrs.flags, SSH_FILEXFER_ATTR_ACMODTIME), p_attrs.mtime)

\* stat_to_attr: st is the host's struct stat
stat_to_attr(st) ==
    [flags |-> SSH_FILEXFER_ATTR_SIZE + SSH_FILEXFER_ATTR_UIDGID
               + SSH_FILEXFER_ATTR_PERMISSIONS + SSH_FILEXFER_ATTR_ACMODTIME,
     permissions |-> st.st_mode, size |-> st.st_size, uid |-> st.st_uid,
     gid |-> st.st_gid, atime |-> st.st_atime, mtime |-> st.st_mtime]

\* ------------------------------------------------------------------------
\* the message switch without its SSH_FX_OP_UNSUPPORTED case
StatusTextNoUnsupported(status) ==
    CASE status = SSH_FX_OK -> <<83, 117, 99, 99, 101, 115, 115>>
      [] status = SSH_FX_EOF -> <<69, 110, 100, 32, 111, 102, 32, 102, 105, 108, 101>>
      [] status = SSH_FX_NO_SUCH_FILE ->
            <<78, 111, 32, 115, 117, 99, 104, 32, 102, 105, 108, 101>>
      [] status = SSH_FX_PERMISSION_DENIED ->
            <<80, 101, 114, 109, 105, 115, 115, 105, 111, 110, 32, 100, 101, 110,
              105, 101, 100>>
      [] status = SSH_FX_FAILURE -> <<70, 97, 105, 108, 117, 114, 101>>
      [] status = SSH_FX_BAD_MESSAGE ->
            <<66, 97, 100, 32, 109, 101, 115, 115, 97, 103, 101>>
      [] OTHER -> <<85, 110, 107, 110, 111, 119, 110, 32, 101, 114, 114, 111, 114>>

\* Status and handle responses
StatusText(status) ==
    CASE status = SSH_FX_OK -> <<83, 117, 99, 99, 101, 115, 115>>
      [] status = SSH_FX_EOF -> <<69, 110, 100, 32, 111, 102, 32, 102, 105, 108, 101>>
      [] status = SSH_FX_NO_SUCH_FILE ->
            <<78, 111, 32, 115, 117, 99, 104, 32, 102, 105, 108, 101>>
      [] status = SSH_FX_PERMISSION_DENIED ->
            <<80, 101, 114, 109, 105, 115, 115, 105, 111, 110, 32, 100, 101, 110,
              105, 101, 100>>
      [] status = SSH_FX_FAILURE -> <<70, 97, 105, 108, 117, 114, 101>>
      [] status = SSH_FX_BAD_MESSAGE ->
            <<66, 97, 100, 32, 109, 101, 115, 115, 97, 103, 101>>
      [] status = SSH_FX_OP_UNSUPPORTED ->
            <<79, 112, 101, 114, 97, 116, 105, 111, 110, 32, 117, 110, 115, 117,
              112, 112, 111, 114, 116, 101, 100>>
      [] OTHER -> <<85, 110, 107, 110, 111, 119, 110, 32, 101, 114, 114, 111, 114>>

LangTag == <<101, 110>>

\* put_status that writes the status code ahead of the id
put_status_code_first(ob, id, status) ==
    LET a == put_byte(ob, SSH_FXP_STATUS)
        b == put_uint32(a, status)
        c == put_uint32(b, id)
        d == put_cstring(c, StatusText(status))
    IN  put_cstring(d, LangTag)

put_status(ob, id, status) ==
    LET a == put_byte(ob, SSH_FXP_STATUS)
        b == put_uint32(a, id)
        c == put_uint32(b, status)
        d == put_cstring(c, StatusText(status))
    IN  put_cstring(d, LangTag)

\* the decimal digits of n as ASCII bytes
RECURSIVE Decimal(_)
Decimal(n) == IF n < 10 THEN <<48 + n>> ELSE Decimal(n \div 10) \o <<48 + (n % 10)>>

\* sprintf("%02lu"): zero-padded on the left to MAX_HANDLE_DIGITS
RECURSIVE ZeroPad(_, _)
ZeroPad(s, width) == IF Len(s) >= width THEN s ELSE ZeroPad(<<48>> \o s, width)

\* sprintf("%lu"): no padding
FormatHandleUnpadded(handle) == Decimal(handle)

FormatHandle(handle) == ZeroPad(Decimal(handle), MAX_HANDLE_DIGITS)

put_handle(ob, id, handle) ==
    IF handle > 0 /\ handle <= MAX_HANDLES
    THEN put_cstring(put_uint32(put_byte(ob, SSH_FXP_HANDLE), id), FormatHandle(handle))
    ELSE [ob EXCEPT !.ok = FALSE]

\* ------------------------------------------------------------------------
\* strtoul(nptr, &ep, 10) over a NUL-terminated string at offset off
\* Every converted value above the table size is rejected alike, so values
\* saturate at TooBig (standing for anything up to ULONG_MAX).
TooBig == 2147483647

IsSpace(c) == c = 32 \/ (c >= 9 /\ c <= 13)

IsDigit(c) == c >= 48 /\ c <= 57

ByteAt(data, off) == Peek(data, off, 1)[1]

RECURSIVE SkipSpace(_, _)
SkipSpace(data, off) ==
    IF IsSpace(ByteAt(data, off)) THEN SkipSpace(data, off + 1) ELSE off

\* [v |-> value so far, ep |-> offset of the first unconverted byte]
RECURSIVE ScanDigits(_, _, _)
ScanDigits(data, off, acc) ==
    IF IsDigit(ByteAt(data, off))
    THEN LET n == IF acc >= 100000000 THEN TooBig
                  ELSE acc * 10 + (ByteAt(data, off) - 48)
         IN  ScanDigits(data, off + 1, n)
    ELSE [v |-> acc, ep |-> off]

strtoul(data, off) ==
    LET Convert(d0, neg) ==
            LET Result(r) ==
                    IF r.ep = d0 THEN [v |-> 0, ep |-> off]
                    ELSE [v |-> IF neg /\ r.v # 0 THEN TooBig ELSE r.v, ep |-> r.ep]
            IN  Result(ScanDigits(data, d0, 0))
        Sign(s) ==
            IF ByteAt(data, s) = 45 THEN Convert(s + 1, TRUE)
            ELSE IF ByteAt(data, s) = 43 THEN Convert(s + 1, FALSE)
            ELSE Convert(s, FALSE)
    IN  Sign(SkipSpace(data, off))

\* ------------------------------------------------------------------------
\* Handle table: handles[1..MAX_HANDLES], zero-initialised
HANDLE_FREE == "FREE"
HANDLE_FILE == "FILE"
HANDLE_DIR == "DIR"
NULL == 0

ZeroHandles == [i \in 1..MAX_HANDLES |-> [use |-> HANDLE_FREE, fd |-> 0, p_dir |-> NULL]]

\* get_handle: h is the 1-based slot of the returned pointer, 0 for NULL
get_handle(ib, tab) ==
    LET Lookup(s, r) ==
            IF ByteAt(s.ib.data, r.ep) # 0 THEN 0
            ELSE IF r.v = 0 THEN 0
            ELSE IF r.v > MAX_HANDLES THEN 0
            ELSE IF tab[r.v].use = HANDLE_FREE THEN 0
            ELSE r.v
        Check(s) ==
            [h |-> IF ~s.ib.ok THEN 0
                   ELSE IF s.len # MAX_HANDLE_DIGITS THEN 0
                   ELSE Lookup(s, strtoul(s.ib.data, s.v)),
             ib |-> s.ib]
    IN  Check(get_string(ib))

\* the lowest free slot (0-based loop index + 1), 0 when there is none
\* the highest free slot instead of the lowest
FirstFreeLast(tab) ==
    IF \E i \in 1..MAX_HANDLES : tab[i].use = HANDLE_FREE
    THEN CHOOSE i \in 1..MAX_HANDLES :
            /\ tab[i].use = HANDLE_FREE
            /\ \A j \in (i + 1)..MAX_HANDLES : tab[j].use # HANDLE_FREE
    ELSE 0

FirstFree(tab) ==
    IF \E i \in 1..MAX_HANDLES : tab[i].use = HANDLE_FREE
    THEN CHOOSE i \in 1..MAX_HANDLES :
            /\ tab[i].use = HANDLE_FREE
            /\ \A j \in 1..(i - 1) : tab[j].use # HANDLE_FREE
    ELSE 0

\* handle_alloc_file: [handle |-> 1..MAX_HANDLES or 0, tab |-> table]
\* handle_alloc_file that stores the descriptor but marks the slot DIR
handle_alloc_file_as_dir(tab, fd) ==
    IF FirstFree(tab) = 0 THEN [handle |-> 0, tab |-> tab]
    ELSE [handle |-> FirstFree(tab),
          tab |-> [tab EXCEPT ![FirstFree(tab)].use = HANDLE_DIR,
                              ![FirstFree(tab)].fd = fd]]

handle_alloc_file(tab, fd) ==
    LET handle == FirstFree(tab)
    IN  IF handle = 0 THEN [handle |-> 0, tab |-> tab]
        ELSE [handle |-> handle,
              tab |-> [tab EXCEPT ![handle].use = HANDLE_FILE, ![handle].fd = fd]]

\* handle_alloc_dir that also marks the last slot of the table
handle_alloc_dir_last_too(tab, fd, p_dir) ==
    IF FirstFree(tab) = 0 THEN [handle |-> 0, tab |-> tab]
    ELSE [handle |-> FirstFree(tab),
          tab |-> [tab EXCEPT ![FirstFree(tab)].use = HANDLE_DIR,
                              ![FirstFree(tab)].fd = fd,
                              ![FirstFree(tab)].p_dir = p_dir,
                              ![MAX_HANDLES].use = HANDLE_DIR]]

handle_alloc_dir(tab, fd, p_dir) ==
    LET handle == FirstFree(tab)
    IN  IF handle = 0 THEN [handle |-> 0, tab |-> tab]
        ELSE [handle |-> handle,
              tab |-> [tab EXCEPT ![handle].use = HANDLE_DIR, ![handle].fd = fd,
                                  ![handle].p_dir = p_dir]]

\* ------------------------------------------------------------------------
\* Portability and POSIX <-> SFTP conversion
\* the mapping without the ELOOP and EFAULT cases
errno_to_sftp_short(unix_error) ==
    CASE unix_error = 0 -> SSH_FX_OK
      [] unix_error \in {ENOENT, ENOTDIR, EBADF} -> SSH_FX_NO_SUCH_FILE
      [] unix_error \in {EPERM, EACCES} -> SSH_FX_PERMISSION_DENIED
      [] unix_error \in {ENAMETOOLONG, EINVAL} -> SSH_FX_BAD_MESSAGE
      [] OTHER -> SSH_FX_FAILURE

errno_to_sftp(unix_error) ==
    CASE unix_error = 0 -> SSH_FX_OK
      [] unix_error \in {ENOENT, ENOTDIR, EBADF, ELOOP} -> SSH_FX_NO_SUCH_FILE
      [] unix_error \in {EPERM, EACCES, EFAULT} -> SSH_FX_PERMISSION_DENIED
      [] unix_error \in {ENAMETOOLONG, EINVAL} -> SSH_FX_BAD_MESSAGE
      [] OTHER -> SSH_FX_FAILURE

\* pflags_to_unix: the host's open flags as a set of flag names
pflags_to_unix(pflags) ==
    (IF HasBit(pflags, 1) /\ HasBit(pflags, 2) THEN {"O_RDWR"}
     ELSE IF HasBit(pflags, 1) THEN {"O_RDONLY"}
     ELSE IF HasBit(pflags, 2) THEN {"O_WRONLY"} ELSE {})
    \cup (IF HasBit(pflags, 8) THEN {"O_CREAT"} ELSE {})
    \cup (IF HasBit(pflags, 16) THEN {"O_TRUNC"} ELSE {})
    \cup (IF HasBit(pflags, 32) THEN {"O_EXCL"} ELSE {})

\* ------------------------------------------------------------------------
\* Host model.  The process state a request handler works on is a record
\*   m = [ib, ob, have_init, handles, fds, dirpos, calls, ctl]
\* ib/ob: the two packet buffers; handles: the handle table; fds: the set of
\* descriptors the process holds open; dirpos: the read position of every
\* open directory stream (a DIR* is identified by the descriptor it wraps);
\* calls: the host calls made for the current request, in order;
\* ctl: "run", or how the process ended ("abort" for a failed assert, "exit1"
\* for exit(EXIT_FAILURE), "hang" for a loop that never ends, "crash" for a
\* fault of the host library).
\* The host outcome h = [e1, e2, e3, n, ub] gives the errno of the first,
\* second and third host call of the handler (0: the call succeeds), the
\* byte count a read/write transfers at most, and the outcome of undefined
\* behaviour.

\* struct stat filled in by stat/lstat/fstat/fstatat (a regular file, 0100644)
HostStat ==
    [st_mode |-> 33188, st_size |-> [hi |-> 0, lo |-> 5], st_uid |-> 1000,
     st_gid |-> 100, st_atime |-> 16909060, st_mtime |-> 84281096]

\* the path realpath resolves to, and the target readlink reports: "/r"
HostPath == <<47, 114>>

\* the bytes read(2) delivers
HostFileData(n) == [i \in 1..n |-> 65 + ((i - 1) % 8)]

\* open(2) returns the lowest descriptor not in use (0, 1, 2 are the stdio)
NewFd(fds) ==
    CHOOSE f \in 3..(3 + Cardinality(fds)) :
        f \notin fds /\ \A g \in 3..(f - 1) : g \in fds

Min2(a, b) == IF a < b THEN a ELSE b

Logged(m, call) == [m EXCEPT !.calls = Append(@, call)]

Reply(m, id, status) == [m EXCEPT !.ob = put_status(m.ob, id, status)]

\* ------------------------------------------------------------------------
\* Request parsing.  Every handler begins with its get_* calls, in a fixed
\* order, before it does anything else; RequestFields lists them per opcode
\* and GetFields makes the calls.  The handler then works on
\*   q = [f |-> <<result of each get_* call>>, ib |-> the buffer after them]
\* A failed assert in a get_* call leaves q.ib.ok FALSE (the process aborts).
RequestFields(opcode) ==
    CASE opcode = SSH_FXP_INIT -> <<"uint32">>
      [] opcode = SSH_FXP_OPEN -> <<"uint32", "string", "uint32", "attrs">>
      [] opcode = SSH_FXP_READ -> <<"uint32", "handle", "uint64", "uint32">>
      [] opcode = SSH_FXP_WRITE -> <<"uint32", "handle", "uint64", "data">>
      [] opcode \in {SSH_FXP_CLOSE, SSH_FXP_FSTAT, SSH_FXP_READDIR} ->
            <<"uint32", "handle">>
      [] opcode \in {SSH_FXP_SETSTAT, SSH_FXP_MKDIR} -> <<"uint32", "string", "attrs">>
      [] opcode = SSH_FXP_FSETSTAT -> <<"uint32", "handle", "attrs">>
      [] opcode \in {SSH_FXP_LSTAT, SSH_FXP_STAT, SSH_FXP_OPENDIR, SSH_FXP_REMOVE,
                     SSH_FXP_RMDIR, SSH_FXP_REALPATH, SSH_FXP_READLINK} ->
            <<"uint32", "string">>
      [] opcode \in {SSH_FXP_RENAME, SSH_FXP_SYMLINK} -> <<"uint32", "string", "string">>
      [] OTHER -> <<"uint32">>

GetField(ib, tab, kind) ==
    CASE kind = "uint32" -> get_uint32(ib)
      [] kind = "uint64" -> get_uint64(ib)
      [] kind = "string" -> get_string(ib)
      [] kind = "data" -> get_data(ib)
      [] kind = "handle" -> get_handle(ib, tab)
      [] kind = "attrs" -> get_attrs(ib)

RECURSIVE GetFields(_, _, _, _)
GetFields(ib, tab, kinds, f) ==
    IF kinds = <<>> THEN [f |-> f, ib |-> ib]
    ELSE GetFields(GetField(ib, tab, Head(kinds)).ib, tab, Tail(kinds),
                   Append(f, GetField(ib, tab, Head(kinds))))

\* ------------------------------------------------------------------------
\* Request handlers: m is the process state with the request parsed
\* (m.ib = q.ib), h the host outcome, q the parsed request.

\* sftp_init that answers with the version the client sent
sftp_init_echo(m, q) ==
    IF ~q.ib.ok THEN m
    ELSE IF ~ULe(SFTP_PROTOCOL_VERSION, q.f[1].v) THEN [m EXCEPT !.ctl = "abort"]
    ELSE [m EXCEPT !.ob = put_uint32(put_byte(m.ob, SSH_FXP_VERSION), q.f[1].v)]

sftp_init(m, q) ==
    LET version == q.f[1].v
    IN  IF ~q.ib.ok THEN m
        ELSE IF ~ULe(SFTP_PROTOCOL_VERSION, version) THEN [m EXCEPT !.ctl = "abort"]
        ELSE [m EXCEPT !.ob = put_uint32(put_byte(m.ob, SSH_FXP_VERSION),
                                         SFTP_PROTOCOL_VERSION)]

\* the mode argument sftp_open hands to open(2)
OpenMode(attrs) ==
    IF HasBit(attrs.flags, SSH_FILEXFER_ATTR_PERMISSIONS)
    THEN attrs.permissions ELSE DEFAULT_FILE_PERM

\* open(2) fails with EMFILE at the descriptor limit
OpenErrno(fds, e, nofile) == IF e = 0 /\ Cardinality(fds) >= nofile THEN EMFILE ELSE e

sftp_open(m, h, q, nofile) ==
    LET id == q.f[1].v
        sz_filename == CStr(q.ib.data, q.f[2].v)
        pflags == q.f[3].v
        attrs == q.f[4].v
        m1 == Logged(m, <<"open", sz_filename, pflags_to_unix(pflags), OpenMode(attrs)>>)
        err == OpenErrno(m.fds, h.e1, nofile)
        fd == NewFd(m.fds)
        handle == FirstFree(m.handles)
    IN  IF ~q.ib.ok THEN m
        ELSE IF err # 0 THEN Reply(m1, id, errno_to_sftp(err))
        ELSE IF handle = 0 THEN Reply(Logged(m1, <<"close", fd>>), id, SSH_FX_FAILURE)
        ELSE [m1 EXCEPT !.fds = @ \cup {fd},
                        !.handles = handle_alloc_file(m.handles, fd).tab,
                        !.ob = put_handle(m.ob, id, handle_alloc_file(m.handles, fd).handle)]

\* the table slot p_handle points at (slot 1 stands in when p_handle is NULL;
\* every use is guarded by p_handle # NULL)
SlotOf(m, p_handle) == m.handles[IF p_handle = 0 THEN 1 ELSE p_handle]

\* sftp_close that frees the slot only when close()/closedir() succeeded
sftp_close_keep_on_error(m, h, q) ==
    LET id == q.f[1].v
        p_handle == q.f[2].h
        slot == SlotOf(m, q.f[2].h)
        status == IF h.e1 # 0 THEN errno_to_sftp(h.e1) ELSE SSH_FX_OK
        use == IF h.e1 # 0 THEN slot.use ELSE HANDLE_FREE
    IN  IF ~q.ib.ok THEN m
        ELSE IF p_handle = 0 THEN Reply(m, id, SSH_FX_FAILURE)
        ELSE IF slot.use = HANDLE_FILE
        THEN Reply([Logged(m, <<"close", slot.fd>>) EXCEPT
                        !.fds = @ \ {slot.fd},
                        !.handles[p_handle].use = use],
                   id, status)
        ELSE Reply([Logged(m, <<"closedir", slot.p_dir>>) EXCEPT
                        !.fds = @ \ {slot.p_dir},
                        !.dirpos = [d \in DOMAIN @ \ {slot.p_dir} |-> @[d]],
                        !.handles[p_handle].use = use],
                   id, status)

sftp_close(m, h, q) ==
    LET id == q.f[1].v
        p_handle == q.f[2].h
        slot == SlotOf(m, q.f[2].h)
        status == IF h.e1 # 0 THEN errno_to_sftp(h.e1) ELSE SSH_FX_OK
    IN  IF ~q.ib.ok THEN m
        ELSE IF p_handle = 0 THEN Reply(m, id, SSH_FX_FAILURE)
        ELSE IF slot.use = HANDLE_FILE
        THEN Reply([Logged(m, <<"close", slot.fd>>) EXCEPT
                        !.fds = @ \ {slot.fd},
                        !.handles[p_handle].use = HANDLE_FREE],
                   id, status)
        ELSE Reply([Logged(m, <<"closedir", slot.p_dir>>) EXCEPT
                        !.fds = @ \ {slot.p_dir},
                        !.dirpos = [d \in DOMAIN @ \ {slot.p_dir} |-> @[d]],
                        !.handles[p_handle].use = HANDLE_FREE],
                   id, status)

\* hdr_size = 1 + 4 + 4 in sftp_read: opcode, id, length-of-data
DataHdrSize == 1 + 4 + 4

\* a DATA response that does not step over the bytes the host stored
PutDataHeaderOnly(ob, id, ret) ==
    put_uint32(put_uint32(put_byte(ob, SSH_FXP_DATA), id), ret)

\* the DATA response: the host has stored ret bytes behind the header
PutData(ob, id, ret) ==
    LET Advance(hdr) == [hdr EXCEPT !.count = @ - ret, !.pos = @ + ret]
    IN  Advance(put_uint32(put_uint32(put_byte(
                [ob EXCEPT !.data = Poke(@, ob.pos + DataHdrSize, HostFileData(ret))],
                SSH_FXP_DATA), id), ret))

sftp_read(m, h, q) ==
    LET id == q.f[1].v
        p_handle == q.f[2].h
        offset == q.f[3].v
        len == IF UGt(q.f[4].v, m.ob.count - DataHdrSize)
               THEN m.ob.count - DataHdrSize ELSE q.f[4].v
        slot == SlotOf(m, q.f[2].h)
        m2 == Logged(m, <<"lseek", slot.fd, offset>>)
        m3 == Logged(Logged(m, <<"lseek", slot.fd, offset>>), <<"read", slot.fd, len>>)
        ret == Min2(h.n, len)
    IN  IF ~q.ib.ok THEN m
        ELSE IF p_handle = 0 \/ slot.use # HANDLE_FILE THEN Reply(m, id, SSH_FX_FAILURE)
        ELSE IF h.e1 # 0 THEN Reply(m2, id, errno_to_sftp(h.e1))
        ELSE IF h.e2 # 0 THEN Reply(m3, id, errno_to_sftp(h.e2))
        ELSE IF ret = 0 THEN Reply(m3, id, SSH_FX_EOF)
        ELSE [m3 EXCEPT !.ob = PutData(m.ob, id, ret)]

\* sftp_write that reports every write without error as complete
sftp_write_short_ok(m, h, q) ==
    IF ~q.ib.ok THEN m
    ELSE IF q.f[2].h = 0 \/ SlotOf(m, q.f[2].h).use # HANDLE_FILE
    THEN Reply(m, q.f[1].v, SSH_FX_FAILURE)
    ELSE IF h.e1 # 0
    THEN Reply(Logged(m, <<"lseek", SlotOf(m, q.f[2].h).fd, q.f[3].v>>), q.f[1].v,
               errno_to_sftp(h.e1))
    ELSE Reply(Logged(Logged(m, <<"lseek", SlotOf(m, q.f[2].h).fd, q.f[3].v>>),
                      <<"write", SlotOf(m, q.f[2].h).fd, q.f[4].v>>),
               q.f[1].v, IF h.e2 # 0 THEN errno_to_sftp(h.e2) ELSE SSH_FX_OK)

sftp_write(m, h, q) ==
    LET id == q.f[1].v
        p_handle == q.f[2].h
        offset == q.f[3].v
        p_data == q.f[4].v
        data_len == q.f[4].len
        slot == SlotOf(m, q.f[2].h)
        m2 == Logged(m, <<"lseek", slot.fd, offset>>)
        m3 == Logged(Logged(m, <<"lseek", slot.fd, offset>>), <<"write", slot.fd, p_data>>)
        ret == Min2(h.n, data_len)
    IN  IF ~q.ib.ok THEN m
        ELSE IF p_handle = 0 \/ slot.use # HANDLE_FILE THEN Reply(m, id, SSH_FX_FAILURE)
        ELSE IF h.e1 # 0 THEN Reply(m2, id, errno_to_sftp(h.e1))
        ELSE IF h.e2 # 0 THEN Reply(m3, id, errno_to_sftp(h.e2))
        ELSE IF ret = data_len THEN Reply(m3, id, SSH_FX_OK)
        ELSE Reply(m3, id, SSH_FX_FAILURE)

PutAttrsReply(m, id, attr) ==
    [m EXCEPT !.ob = put_attrs(put_uint32(put_byte(m.ob, SSH_FXP_ATTRS), id), attr)]

do_stat(m, h, q, follow_symlinks) ==
    LET id == q.f[1].v
        m1 == Logged(m, <<IF follow_symlinks THEN "stat" ELSE "lstat",
                          CStr(q.ib.data, q.f[2].v)>>)
    IN  IF ~q.ib.ok THEN m
        ELSE IF h.e1 # 0 THEN Reply(m1, id, errno_to_sftp(h.e1))
        ELSE PutAttrsReply(m1, id, stat_to_attr(HostStat))

sftp_stat(m, h, q) == do_stat(m, h, q, TRUE)

sftp_lstat(m, h, q) == do_stat(m, h, q, FALSE)

\* sftp_fstat that checks only that the handle resolves, not the slot's kind
sftp_fstat_any_kind(m, h, q) ==
    IF ~q.ib.ok THEN m
    ELSE IF q.f[2].h = 0 THEN Reply(m, q.f[1].v, SSH_FX_FAILURE)
    ELSE IF h.e1 # 0
    THEN Reply(Logged(m, <<"fstat", SlotOf(m, q.f[2].h).fd>>), q.f[1].v,
               errno_to_sftp(h.e1))
    ELSE PutAttrsReply(Logged(m, <<"fstat", SlotOf(m, q.f[2].h).fd>>), q.f[1].v,
                       stat_to_attr(HostStat))

sftp_fstat(m, h, q) ==
    LET id == q.f[1].v
        p_handle == q.f[2].h
        slot == SlotOf(m, q.f[2].h)
        m2 == Logged(m, <<"fstat", slot.fd>>)
    IN  IF ~q.ib.ok THEN m
        ELSE IF p_handle = 0 \/ slot.use # HANDLE_FILE THEN Reply(m, id, SSH_FX_FAILURE)
        ELSE IF h.e1 # 0 THEN Reply(m2, id, errno_to_sftp(h.e1))
        ELSE PutAttrsReply(m2, id, stat_to_attr(HostStat))

\* attrs_to_tv: tv[0] = atime, tv[1] = mtime, both with tv_usec = 0
attrs_to_tv(p_attr) ==
    << [tv_sec |-> p_attr.atime, tv_usec |-> 0],
       [tv_sec |-> p_attr.mtime, tv_usec |-> 0] >>

\* The chmod / utimes / chown sequence shared by SETSTAT (on a path) and
\* FSETSTAT (on a descriptor): target is the path or the descriptor, names
\* the three host calls.  The first call that fails ends the request:
\* SetAttrCalls is the calls made, SetAttrStatus the status reported.
\* the sequence attempted to its end, whatever the calls return
SetAttrCallsAll(h, attr, target, names) ==
    (IF HasBit(attr.flags, SSH_FILEXFER_ATTR_PERMISSIONS)
     THEN << <<names[1], target, attr.permissions % (PERM_MASK + 1)>> >> ELSE <<>>)
    \o (IF HasBit(attr.flags, SSH_FILEXFER_ATTR_ACMODTIME)
        THEN << <<names[2], target, attrs_to_tv(attr)>> >> ELSE <<>>)
    \o (IF HasBit(attr.flags, SSH_FILEXFER_ATTR_UIDGID)
        THEN << <<names[3], target, attr.uid, attr.gid>> >> ELSE <<>>)

SetAttrCalls(h, attr, target, names) ==
    (IF HasBit(attr.flags, SSH_FILEXFER_ATTR_PERMISSIONS)
     THEN << <<names[1], target, attr.permissions % (PERM_MASK + 1)>> >> ELSE <<>>)
    \o (IF HasBit(attr.flags, SSH_FILEXFER_ATTR_ACMODTIME)
           /\ ~(HasBit(attr.flags, SSH_FILEXFER_ATTR_PERMISSIONS) /\ h.e1 # 0)
        THEN << <<names[2], target, attrs_to_tv(attr)>> >> ELSE <<>>)
    \o (IF HasBit(attr.flags, SSH_FILEXFER_ATTR_UIDGID)
           /\ ~(HasBit(attr.flags, SSH_FILEXFER_ATTR_PERMISSIONS) /\ h.e1 # 0)
           /\ ~(HasBit(attr.flags, SSH_FILEXFER_ATTR_ACMODTIME) /\ h.e2 # 0)
        THEN << <<names[3], target, attr.uid, attr.gid>> >> ELSE <<>>)

SetAttrStatus(h, attr) ==
    IF HasBit(attr.flags, SSH_FILEXFER_ATTR_PERMISSIONS) /\ h.e1 # 0
    THEN errno_to_sftp(h.e1)
    ELSE IF HasBit(attr.flags, SSH_FILEXFER_ATTR_ACMODTIME) /\ h.e2 # 0
    THEN errno_to_sftp(h.e2)
    ELSE IF HasBit(attr.flags, SSH_FILEXFER_ATTR_UIDGID) /\ h.e3 # 0
    THEN errno_to_sftp(h.e3)
    ELSE SSH_FX_OK

sftp_setstat(m, h, q) ==
    LET id == q.f[1].v
        sz_path == CStr(q.ib.data, q.f[2].v)
        attr == q.f[3].v
    IN  IF ~q.ib.ok THEN m
        ELSE Reply([m EXCEPT !.calls = @ \o SetAttrCalls(h, attr, sz_path,
                                                          <<"chmod", "utimes", "chown">>)],
                   id, SetAttrStatus(h, attr))

sftp_fsetstat(m, h, q) ==
    LET id == q.f[1].v
        p_handle == q.f[2].h
        slot == SlotOf(m, q.f[2].h)
        attr == q.f[3].v
    IN  IF ~q.ib.ok THEN m
        ELSE IF p_handle = 0 \/ slot.use # HANDLE_FILE THEN Reply(m, id, SSH_FX_FAILURE)
        ELSE Reply([m EXCEPT !.calls = @ \o SetAttrCalls(h, attr, slot.fd,
                                                          <<"fchmod", "futimes", "fchown">>)],
                   id, SetAttrStatus(h, attr))

\* fdopendir(fd): the new stream is identified by its descriptor and starts
\* at position 0
OpenStream(dirpos, p_dir) ==
    [d \in DOMAIN dirpos \cup {p_dir} |-> IF d = p_dir THEN 0 ELSE dirpos[d]]

sftp_opendir(m, h, q, nofile) ==
    LET id == q.f[1].v
        sz_path == CStr(q.ib.data, q.f[2].v)
        m1 == Logged(m, <<"open", sz_path, {"O_RDONLY"}, 0>>)
        err == OpenErrno(m.fds, h.e1, nofile)
        fd == NewFd(m.fds)
        m2 == [m EXCEPT !.calls = @ \o << <<"open", sz_path, {"O_RDONLY"}, 0>>,
                                          <<"fdopendir", fd>> >>,
                        !.fds = @ \cup {fd}]
        handle == FirstFree(m.handles)
    IN  IF ~q.ib.ok THEN m
        ELSE IF err # 0 THEN Reply(m1, id, errno_to_sftp(err))
        ELSE IF h.e2 # 0 THEN Reply(m2, id, errno_to_sftp(h.e2))
        ELSE IF handle # 0
        THEN [m2 EXCEPT !.dirpos = OpenStream(@, fd),
                        !.handles = handle_alloc_dir(m.handles, fd, fd).tab,
                        !.ob = put_handle(m.ob, id,
                                          handle_alloc_dir(m.handles, fd, fd).handle)]
        ELSE Reply([m2 EXCEPT !.dirpos = OpenStream(@, fd)], id, SSH_FX_FAILURE)

\* The do { } while (p_entry) loop of sftp_readdir over the directory listing
\* dir, from stream position posn.  ReaddirPass is one pass of the loop body
\* on st = [ob, posn, count, hang].  An entry that does not fit when count > 0
\* is un-read with seekdir(dir_posn); p_entry is then still non-NULL, so the
\* loop reads the same entry again with nothing changed: it never ends
\* (hang).  Every other pass moves the stream on by one entry, so the loop
\* makes Len(dir) - posn such passes and then readdir() returns NULL;
\* ReaddirPasses composes k passes, in the order of the loop.
\* a pass that writes every entry it can stat, without the test for space
ReaddirPassNoFit(st, dir) ==
    IF st.hang \/ ~st.ob.ok \/ st.posn >= Len(dir) THEN st
    ELSE IF ~dir[st.posn + 1].stat_ok THEN [st EXCEPT !.posn = @ + 1]
    ELSE [st EXCEPT !.ob = put_attrs(put_cstring(put_cstring(@, dir[st.posn + 1].d_name),
                                                 dir[st.posn + 1].d_name),
                                     stat_to_attr(HostStat)),
                    !.posn = @ + 1, !.count = @ + 1]

ReaddirPass(st, dir) ==
    IF st.hang \/ ~st.ob.ok \/ st.posn >= Len(dir) THEN st
    ELSE IF ~dir[st.posn + 1].stat_ok THEN [st EXCEPT !.posn = @ + 1]
    ELSE IF (Len(dir[st.posn + 1].d_name) + 4) * 2 + MAX_ATTRS_BYTES <= st.ob.count
    THEN [st EXCEPT !.ob = put_attrs(put_cstring(put_cstring(@, dir[st.posn + 1].d_name),
                                                 dir[st.posn + 1].d_name),
                                     stat_to_attr(HostStat)),
                    !.posn = @ + 1, !.count = @ + 1]
    ELSE IF st.count > 0 THEN [st EXCEPT !.hang = TRUE]
    ELSE [st EXCEPT !.posn = @ + 1]

RECURSIVE ReaddirPasses(_, _, _)
ReaddirPasses(st, dir, k) ==
    IF k <= 0 THEN st
    ELSE IF k = 1 THEN ReaddirPass(st, dir)
    ELSE LET half == ReaddirPasses(st, dir, k \div 2)
         IN  IF half.hang THEN half ELSE ReaddirPasses(half, dir, k - (k \div 2))

ReaddirLoop(ob, posn, count, dir) ==
    ReaddirPasses([ob |-> ob, posn |-> posn, count |-> count, hang |-> FALSE], dir,
                  Len(dir) - posn)

\* the count field left as first written (0)
PatchCountMissing(ob, save2, count) == ob

\* buff_swap(&save2); put_uint32(count); buff_swap(&save2);
PatchCount(ob, save2, count) ==
    LET Back(a) == buff_swap(put_uint32(a.ob, count), a.save).ob
    IN  Back(buff_swap(ob, save2))

\* The end of sftp_readdir on a directory stream: loop is what the loop left
ReaddirResult(m, id, p_dir, save1, save2, loop) ==
    IF loop.hang
    THEN [m EXCEPT !.ob = loop.ob, !.ctl = "hang", !.dirpos[p_dir] = loop.posn]
    ELSE IF loop.count > 0
    THEN [m EXCEPT !.ob = PatchCount(loop.ob, save2, loop.count),
                   !.dirpos[p_dir] = loop.posn]
    ELSE Reply([m EXCEPT !.ob = buff_swap(loop.ob, save1).ob,
                         !.dirpos[p_dir] = loop.posn],
               id, SSH_FX_EOF)

\* A DIR slot iterates its stream.  For a FILE slot p_dir was never set by
\* handle_alloc_file: telldir/readdir get a null or stale pointer, and the
\* host library faults (h.ub = "crash") or reports the end of the stream.
sftp_readdir(m, h, q, dir) ==
    LET id == q.f[1].v
        p_handle == q.f[2].h
        slot == SlotOf(m, q.f[2].h)
        m2 == Logged(m, <<"telldir", slot.p_dir>>)
        hdr == put_uint32(put_byte(m.ob, SSH_FXP_NAME), q.f[1].v)
    IN  IF ~q.ib.ok THEN m
        ELSE IF p_handle = 0 THEN Reply(m, id, SSH_FX_FAILURE)
        ELSE IF slot.use = HANDLE_DIR
        THEN ReaddirResult(m2, id, slot.p_dir, buff_save(m.ob), buff_save(hdr),
                           ReaddirLoop(put_uint32(hdr, 0), m.dirpos[slot.p_dir], 0, dir))
        ELSE IF h.ub = "crash" THEN [m2 EXCEPT !.ctl = "crash"]
        ELSE Reply([m2 EXCEPT !.ob = buff_swap(put_uint32(hdr, 0), buff_save(m.ob)).ob],
                   id, SSH_FX_EOF)

\* REMOVE, RMDIR: one path, one host call; OK or the mapped errno
PathCall(m, h, q, name) ==
    IF ~q.ib.ok THEN m
    ELSE Reply(Logged(m, <<name, CStr(q.ib.data, q.f[2].v)>>), q.f[1].v,
               IF h.e1 # 0 THEN errno_to_sftp(h.e1) ELSE SSH_FX_OK)

sftp_remove(m, h, q) == PathCall(m, h, q, "remove")

sftp_rmdir(m, h, q) == PathCall(m, h, q, "rmdir")

\* the mode argument sftp_mkdir hands to mkdir(2)
MkdirMode(attr) ==
    IF HasBit(attr.flags, SSH_FILEXFER_ATTR_PERMISSIONS)
    THEN attr.permissions % (PERM_MASK + 1) ELSE DEFAULT_DIR_PERM

sftp_mkdir(m, h, q) ==
    IF ~q.ib.ok THEN m
    ELSE Reply(Logged(m, <<"mkdir", CStr(q.ib.data, q.f[2].v), MkdirMode(q.f[3].v)>>),
               q.f[1].v, IF h.e1 # 0 THEN errno_to_sftp(h.e1) ELSE SSH_FX_OK)

\* a NAME response holding one name, given twice, with dummy attributes
PutOneName(ob, id, sz_name) ==
    put_attrs(put_cstring(put_cstring(put_uint32(put_uint32(put_byte(ob, SSH_FXP_NAME),
                                                            id), 1),
                                      sz_name), sz_name),
              ZeroAttrs)

sftp_realpath(m, h, q) ==
    LET id == q.f[1].v
        m1 == Logged(m, <<"realpath", CStr(q.ib.data, q.f[2].v)>>)
    IN  IF ~q.ib.ok THEN m
        ELSE IF h.e1 # 0 THEN Reply(m1, id, errno_to_sftp(h.e1))
        ELSE [m1 EXCEPT !.ob = PutOneName(m.ob, id, HostPath)]

\* RENAME, SYMLINK: two paths; swapped tells the order the host call gets them
TwoPathCall(m, h, q, name, swapped) ==
    LET first == CStr(q.ib.data, q.f[2].v)
        second == CStr(q.ib.data, q.f[3].v)
    IN  IF ~q.ib.ok THEN m
        ELSE Reply(Logged(m, IF swapped THEN <<name, second, first>>
                             ELSE <<name, first, second>>),
                   q.f[1].v, IF h.e1 # 0 THEN errno_to_sftp(h.e1) ELSE SSH_FX_OK)

sftp_rename(m, h, q) == TwoPathCall(m, h, q, "rename", FALSE)

sftp_symlink(m, h, q) == TwoPathCall(m, h, q, "symlink", TRUE)

\* the else branch of sftp_readlink: a is the buffer after the NAME header,
\* the host has stored len bytes of the target at p_target
PutLinkTarget(a, p_target, len) ==
    LET Name(c) == put_attrs(put_cstring(c, CStr(c.data, p_target)), ZeroAttrs)
        Advance(b) == [b EXCEPT !.count = @ - len, !.pos = @ + len,
                                !.data = Poke(@, p_target + len, <<0>>)]
    IN  Name(Advance(put_uint32(
            [a EXCEPT !.data = Poke(@, p_target, SubSeq(HostPath, 1, len))], len)))

\* space = (obuff.count - MAX_ATTRS_BYTES)/2 - sizeof(uint32_t)
LinkSpace(a) == ((a.count - MAX_ATTRS_BYTES) \div 2) - 4

sftp_readlink(m, h, q) ==
    LET id == q.f[1].v
        a == put_uint32(put_uint32(put_byte(m.ob, SSH_FXP_NAME), q.f[1].v), 1)
        m2 == Logged(m, <<"readlink", CStr(q.ib.data, q.f[2].v),
                          LinkSpace(put_uint32(put_uint32(put_byte(m.ob, SSH_FXP_NAME),
                                                          q.f[1].v), 1))>>)
    IN  IF ~q.ib.ok THEN m
        ELSE IF h.e1 # 0
        THEN Reply([m2 EXCEPT !.ob = buff_swap(a, buff_save(m.ob)).ob], id,
                   errno_to_sftp(h.e1))
        ELSE [m2 EXCEPT !.ob = PutLinkTarget(a, a.pos + 4,
                                             Min2(Len(HostPath), LinkSpace(a)))]

\* ------------------------------------------------------------------------
\* Dispatcher: m is the process state once get_byte has taken the opcode,
\* q the request as its handler parses it, m1 the state after that parsing

\* the gate compiled with NDEBUG: the assert on the opcode is gone
ExpectInitNoAssert(opcode, m, m1, q) ==
    IF opcode # SSH_FXP_INIT THEN m
    ELSE IF q.ib.ok /\ sftp_init(m1, q).ctl = "run"
    THEN [sftp_init(m1, q) EXCEPT !.have_init = TRUE]
    ELSE sftp_init(m1, q)

\* the gate setting have_init before it calls sftp_init
ExpectInitEarly(opcode, m, m1, q) ==
    IF opcode # SSH_FXP_INIT THEN [m EXCEPT !.ctl = "abort"]
    ELSE [sftp_init(m1, q) EXCEPT !.have_init = TRUE]

\* if (!have_init) { assert(opcode == SSH_FXP_INIT); sftp_init(); have_init = SSH_TRUE; }
ExpectInit(opcode, m, m1, q) ==
    IF opcode # SSH_FXP_INIT THEN [m EXCEPT !.ctl = "abort"]
    ELSE IF q.ib.ok /\ sftp_init(m1, q).ctl = "run"
    THEN [sftp_init(m1, q) EXCEPT !.have_init = TRUE]
    ELSE sftp_init(m1, q)

\* a second INIT that is silently ignored
DuplicateInitIgnored(m) == m

\* case SSH_FXP_INIT: fprintf(stderr, "Can't INIT twice\n"); exit(EXIT_FAILURE);
DuplicateInit(m) == [m EXCEPT !.ctl = "exit1"]

\* default: put_status(get_uint32(), SSH_FX_OP_UNSUPPORTED);
Unsupported(m1, q) ==
    IF q.ib.ok THEN Reply(m1, q.f[1].v, SSH_FX_OP_UNSUPPORTED) ELSE m1

Dispatch(opcode, m, m1, h, q, nofile, dir) ==
    IF ~m.have_init THEN ExpectInit(opcode, m, m1, q)
    ELSE CASE opcode = SSH_FXP_INIT -> DuplicateInit(m)
           [] opcode = SSH_FXP_OPEN -> sftp_open(m1, h, q, nofile)
           [] opcode = SSH_FXP_CLOSE -> sftp_close(m1, h, q)
           [] opcode = SSH_FXP_READ -> sftp_read(m1, h, q)
           [] opcode = SSH_FXP_WRITE -> sftp_write(m1, h, q)
           [] opcode = SSH_FXP_LSTAT -> sftp_lstat(m1, h, q)
           [] opcode = SSH_FXP_FSTAT -> sftp_fstat(m1, h, q)
           [] opcode = SSH_FXP_SETSTAT -> sftp_setstat(m1, h, q)
           [] opcode = SSH_FXP_FSETSTAT -> sftp_fsetstat(m1, h, q)
           [] opcode = SSH_FXP_OPENDIR -> sftp_opendir(m1, h, q, nofile)
           [] opcode = SSH_FXP_READDIR -> sftp_readdir(m1, h, q, dir)
           [] opcode = SSH_FXP_REMOVE -> sftp_remove(m1, h, q)
           [] opcode = SSH_FXP_MKDIR -> sftp_mkdir(m1, h, q)
           [] opcode = SSH_FXP_RMDIR -> sftp_rmdir(m1, h, q)
           [] opcode = SSH_FXP_REALPATH -> sftp_realpath(m1, h, q)
           [] opcode = SSH_FXP_STAT -> sftp_stat(m1, h, q)
           [] opcode = SSH_FXP_RENAME -> sftp_rename(m1, h, q)
           [] opcode = SSH_FXP_READLINK -> sftp_readlink(m1, h, q)
           [] opcode = SSH_FXP_SYMLINK -> sftp_symlink(m1, h, q)
           [] OTHER -> Unsupported(m1, q)

\* the request's fields as the handler for opcode reads them
Parse(opcode, tab) ==
    GetFields(opcode.ib, tab, RequestFields(opcode.v), <<>>)

WithParsed(opcode, m, h, q, nofile, dir) ==
    Dispatch(opcode.v, [m EXCEPT !.ib = opcode.ib], [m EXCEPT !.ib = q.ib], h, q,
             nofile, dir)

sftp_in(m, h, nofile, dir) ==
    IF ~get_byte(m.ib).ib.ok THEN [m EXCEPT !.ib = get_byte(m.ib).ib]
    ELSE WithParsed(get_byte(m.ib), m, h, Parse(get_byte(m.ib), m.handles), nofile, dir)

\* ------------------------------------------------------------------------
\* Bounds of the model
MaxOpenFds == 2     \* descriptors the host lets the process hold besides stdio
MaxData == 2        \* most bytes one host read or write transfers

\* ------------------------------------------------------------------------
\* The client: request packets as an SFTP client encodes them.  A packet is
\*   [op, id, hs, hdr, body]
\* hdr the 4-byte length header, body the payload; op, id and hs (the handle
\* string) are what the client put into the body.
Packet(op, id, hs, rest) ==
    [op |-> op, id |-> id, hs |-> hs, hdr |-> BE32(5 + Len(rest)),
     body |-> <<op>> \o BE32(id) \o rest]

InitPacket(version) ==
    [op |-> SSH_FXP_INIT, id |-> 0, hs |-> <<>>, hdr |-> BE32(5),
     body |-> <<SSH_FXP_INIT>> \o BE32(version)]

\* request ids: 42, 0x01020304 and 0x80000001
IdSmall == FromBE32(<<0, 0, 0, 42>>)
IdMid == FromBE32(<<1, 2, 3, 4>>)
IdBig == FromBE32(<<128, 0, 0, 1>>)

\* "/a" and "/b"
PathA == <<47, 97>>
PathB == <<47, 98>>

\* handle strings: "01" "02" "00" "+1" "1" "1x"
H01 == <<48, 49>>
H02 == <<48, 50>>
HandleStrings == {H01, H02, <<48, 48>>, <<43, 49>>, <<49>>, <<49, 120>>}

\* attrs as the client encodes them: no flags; PERMISSIONS 0104755;
\* UIDGID|PERMISSIONS|ACMODTIME; UIDGID|ACMODTIME
NoAttrs == BE32(0)
PermAttrs == BE32(SSH_FILEXFER_ATTR_PERMISSIONS) \o BE32(35309)
FullAttrs == BE32(14) \o BE32(1000) \o BE32(100) \o BE32(420) \o BE32(5) \o BE32(6)
TimeOwnerAttrs == BE32(10) \o BE32(1000) \o BE32(100) \o BE32(5) \o BE32(6)

Offset8 == BE32(0) \o BE32(1)

WellFormedPackets ==
    {InitPacket(v) : v \in {2, 3, 6, IdBig}}
    \cup {Packet(SSH_FXP_OPEN, IdBig, <<>>, WireStr(PathA) \o BE32(pf) \o at) :
            pf \in {1, 26}, at \in {NoAttrs, PermAttrs}}
    \cup {Packet(SSH_FXP_CLOSE, IdSmall, hs, WireStr(hs)) : hs \in HandleStrings}
    \cup {Packet(SSH_FXP_READ, IdMid, H01, WireStr(H01) \o Offset8 \o BE32(len)) :
            len \in {0, 1, 0 - 1}}
    \cup {Packet(SSH_FXP_READ, IdMid, H02, WireStr(H02) \o Offset8 \o BE32(1))}
    \cup {Packet(SSH_FXP_WRITE, IdSmall, hs, WireStr(hs) \o Offset8 \o WireStr(<<104, 105>>)) :
            hs \in {H01, H02}}
    \cup {Packet(SSH_FXP_WRITE, IdSmall, H01, WireStr(H01) \o Offset8 \o WireStr(<<>>))}
    \cup {Packet(op, IdBig, <<>>, WireStr(PathA)) :
            op \in {SSH_FXP_LSTAT, SSH_FXP_STAT, SSH_FXP_OPENDIR, SSH_FXP_REMOVE,
                    SSH_FXP_RMDIR, SSH_FXP_REALPATH, SSH_FXP_READLINK}}
    \cup {Packet(op, IdMid, hs, WireStr(hs)) :
            hs \in {H01, H02}, op \in {SSH_FXP_FSTAT, SSH_FXP_READDIR}}
    \cup {Packet(SSH_FXP_SETSTAT, IdSmall, <<>>, WireStr(PathA) \o at) :
            at \in {NoAttrs, PermAttrs, FullAttrs, TimeOwnerAttrs}}
    \cup {Packet(SSH_FXP_FSETSTAT, IdSmall, hs, WireStr(hs) \o at) :
            hs \in {H01, H02}, at \in {NoAttrs, FullAttrs}}
    \cup {Packet(SSH_FXP_MKDIR, IdSmall, <<>>, WireStr(PathA) \o at) :
            at \in {NoAttrs, PermAttrs}}
    \cup {Packet(op, IdMid, <<>>, WireStr(PathA) \o WireStr(PathB)) :
            op \in {SSH_FXP_RENAME, SSH_FXP_SYMLINK}}
    \cup {Packet(op, id, <<>>, <<>>) :
            id \in {IdSmall, IdBig}, op \in {0, SSH_FXP_VERSION, 21, 200}}

\* an empty payload
EmptyPacket == [op |-> 0, id |-> 0, hs |-> <<>>, hdr |-> BE32(0), body |-> <<>>]

\* a length header above MAX_PACKET (the payload is never read)
OversizePackets ==
    {[op |-> 0, id |-> 0, hs |-> <<>>, hdr |-> BE32(l), body |-> <<>>] :
        l \in {MAX_PACKET + 1, 0 - 1}}

\* WRITE on handle "01" whose data length field (3) exceeds the 2 bytes left
ShortWrite ==
    Packet(SSH_FXP_WRITE, IdSmall, H01,
           WireStr(H01) \o Offset8 \o BE32(3) \o <<104, 105>>)

\* payloads that end before the fields the handler parses
ShortPackets ==
    {[op |-> op, id |-> 0, hs |-> <<>>, hdr |-> BE32(1), body |-> <<op>>] :
        op \in {SSH_FXP_INIT, SSH_FXP_CLOSE, 99}}
    \cup {[op |-> SSH_FXP_CLOSE, id |-> IdSmall, hs |-> H01, hdr |-> BE32(11),
           body |-> <<SSH_FXP_CLOSE>> \o BE32(IdSmall) \o BE32(5) \o H01]}
    \cup {ShortWrite,
          Packet(SSH_FXP_READ, IdMid, H01, WireStr(H01) \o BE32(0)),
          Packet(SSH_FXP_OPEN, IdBig, <<>>,
                 WireStr(PathA) \o BE32(1) \o BE32(SSH_FILEXFER_ATTR_PERMISSIONS))}

Packets == WellFormedPackets \cup {EmptyPacket} \cup OversizePackets \cup ShortPackets

\* the host outcomes tried for a request with opcode op
NoError == [e1 |-> 0, e2 |-> 0, e3 |-> 0, n |-> MaxData, ub |-> "null"]

HostOutcomes(op) ==
    CASE op \in {SSH_FXP_OPEN} ->
            {[NoError EXCEPT !.e1 = e] : e \in {0, ENOENT, EACCES}}
      [] op \in {SSH_FXP_OPENDIR} ->
            {[NoError EXCEPT !.e1 = e] : e \in {0, ENOTDIR}}
      [] op = SSH_FXP_CLOSE -> {[NoError EXCEPT !.e1 = e] : e \in {0, EIO, EBADF}}
      [] op \in {SSH_FXP_READ, SSH_FXP_WRITE} ->
            {[NoError EXCEPT !.n = n] : n \in 0..MaxData}
            \cup {[NoError EXCEPT !.e1 = EINVAL], [NoError EXCEPT !.e2 = EBADF]}
      [] op \in {SSH_FXP_SETSTAT, SSH_FXP_FSETSTAT} ->
            {NoError, [NoError EXCEPT !.e1 = EPERM], [NoError EXCEPT !.e2 = EACCES],
             [NoError EXCEPT !.e3 = EPERM]}
      [] op = SSH_FXP_READDIR -> {NoError, [NoError EXCEPT !.ub = "crash"]}
      [] op = SSH_FXP_REMOVE ->
            {[NoError EXCEPT !.e1 = e] :
                e \in {0, EPERM, ENOENT, EIO, EBADF, EACCES, EFAULT, ENOTDIR, EINVAL,
                       EMFILE, ENAMETOOLONG, ELOOP}}
      [] op \in {SSH_FXP_LSTAT, SSH_FXP_STAT, SSH_FXP_FSTAT, SSH_FXP_MKDIR, SSH_FXP_RMDIR,
                 SSH_FXP_REALPATH, SSH_FXP_RENAME, SSH_FXP_READLINK, SSH_FXP_SYMLINK} ->
            {NoError, [NoError EXCEPT !.e1 = ENOENT]}
      [] OTHER -> {NoError}

\* directory listing of the host: "a" (cannot be stat-ed), "bc"
SmallDir ==
    << [d_name |-> <<97>>, stat_ok |-> FALSE],
       [d_name |-> <<98, 99>>, stat_ok |-> TRUE] >>

\* directory listing of a host whose directories hold LongDirEntries entries
\* with names of MaxNameLen bytes, the longest a dirent carries
MaxNameLen == 255
LongDirEntries == 62

LongDir ==
    [i \in 1..LongDirEntries |->
        [d_name |-> <<96 + i>> \o [j \in 1..(MaxNameLen - 1) |-> 120],
         stat_ok |-> TRUE]]

\* ------------------------------------------------------------------------
\* The process
VARIABLES
    pc,          \* "read": in read_input at the top of main's loop; "send": in
                 \* the write loop; "done": at the end of the loop body;
                 \* "exit0", "exit1", "abort", "hang", "crash": ended
    ibuff,       \* the input packet buffer
    obuff,       \* the output packet buffer
    have_init,   \* INIT has been processed
    handles,     \* the handle table
    openfds,     \* host: descriptors the process holds open
    dirpos,      \* host: position of each open directory stream
    packet_len,  \* main: bytes of the response still to write
    p_out,       \* main: offset of the next byte to write
    out,         \* host: the bytes written to stdout for the current packet
    syscalls,    \* host: the calls made for the current request
    req,         \* the packet last read from stdin and the host outcome used
    outstanding, \* client: handle strings received and not yet sent to CLOSE
    nofile,      \* host: limit on open descriptors besides stdio
    hostdir,     \* host: the listing every directory stream iterates
    probe        \* what a codec run on its own was given and what it returned

vars == <<pc, ibuff, obuff, have_init, handles, openfds, dirpos, packet_len, p_out,
          out, syscalls, req, outstanding, nofile, hostdir, probe>>

EmptyBuff == [data |-> <<>>, pos |-> 0, count |-> 0, ok |-> TRUE]

NoReq == [pkt |-> EmptyPacket, h |-> NoError]

NoProbe == [kind |-> "none"]

InitProcess ==
    /\ pc = "read"
    /\ ibuff = EmptyBuff
    /\ obuff = EmptyBuff
    /\ have_init = FALSE
    /\ handles = ZeroHandles
    /\ openfds = {}
    /\ dirpos = << >>
    /\ packet_len = 0
    /\ p_out = 0
    /\ out = <<>>
    /\ syscalls = <<>>
    /\ req = NoReq
    /\ outstanding = {}
    /\ probe = NoProbe

Init ==
    /\ InitProcess
    /\ nofile = MaxOpenFds
    /\ hostdir = SmallDir

\* read_input(len) when the stream delivers all len bytes
read_input(ib, bytes) ==
    [data |-> Poke(ib.data, 0, bytes), pos |-> 0, count |-> Len(bytes), ok |-> TRUE]

\* obuff.p_data = obuff.data; obuff.count = sizeof(obuff.data);
FreshOut == [data |-> <<>>, pos |-> 0, count |-> MAX_PACKET, ok |-> TRUE]

\* The end of an iteration of main's loop, up to the write loop: m is the
\* process state once sftp_in has returned; ctl becomes "send" when a response
\* is to be written and "done" when none is.
Respond(m) ==
    IF m.ctl # "run" THEN [m |-> m, packet_len |-> packet_len]
    ELSE IF ~m.ib.ok \/ ~m.ob.ok
    THEN [m |-> [m EXCEPT !.ctl = "abort"], packet_len |-> packet_len]
    ELSE IF (MAX_PACKET - m.ob.count) - 4 > 0
    THEN [m |-> [m EXCEPT !.ob = put_uint32(buff_swap(m.ob, buff_save(FreshOut)).ob,
                                            (MAX_PACKET - m.ob.count) - 4),
                          !.ctl = "send"],
          packet_len |-> MAX_PACKET - m.ob.count]
    ELSE [m |-> [m EXCEPT !.ctl = "done"], packet_len |-> MAX_PACKET - m.ob.count]

\* main's loop without the `if (payload_len > 0)` around sftp_in()
PayloadAlways(payload_len, m0, h) ==
    IF ~ULe(payload_len.v, MAX_PACKET)
    THEN [m |-> [m0 EXCEPT !.ib = payload_len.ib, !.ob = EmptyBuff, !.ctl = "abort"],
          packet_len |-> packet_len]
    ELSE Respond(sftp_in(m0, h, nofile, hostdir))

\* The iteration after read_input(4) and payload_len = get_uint32(): m0 is
\* the process state once the payload is read and the output buffer reset
Payload(payload_len, m0, h) ==
    IF ~ULe(payload_len.v, MAX_PACKET)
    THEN [m |-> [m0 EXCEPT !.ib = payload_len.ib, !.ob = EmptyBuff, !.ctl = "abort"],
          packet_len |-> packet_len]
    ELSE IF payload_len.v # 0 THEN Respond(sftp_in(m0, h, nofile, hostdir))
    ELSE Respond(m0)

\* One iteration of main's loop up to the write loop, for a packet that
\* arrives whole
Iteration(pkt, h) ==
    Payload(get_uint32(read_input(ibuff, pkt.hdr)),
            [ib |-> read_input(get_uint32(read_input(ibuff, pkt.hdr)).ib, pkt.body),
             ob |-> put_uint32(FreshOut, 0), have_init |-> have_init,
             handles |-> handles, fds |-> openfds, dirpos |-> dirpos,
             calls |-> <<>>, ctl |-> "run"],
            h)

\* What the client holds after a request: a handle string delivered in a
\* HANDLE response is held, with the kind of request that opened it, and one
\* sent in a CLOSE request that was answered is held no longer.
Holds(held, pkt, it) ==
    (IF pkt.op = SSH_FXP_CLOSE /\ it.m.ctl = "send"
     THEN {e \in held : e[1] # pkt.hs} ELSE held)
    \cup (IF it.m.ctl = "send" /\ Peek(it.m.ob.data, 4, 1) = <<SSH_FXP_HANDLE>>
          THEN {<<Peek(it.m.ob.data, 13, FromBE32(Peek(it.m.ob.data, 9, 4))),
                  IF pkt.op = SSH_FXP_OPEN THEN HANDLE_FILE ELSE HANDLE_DIR>>}
          ELSE {})

Request ==
    /\ pc = "read"
    /\ \E pkt \in Packets : \E h \in HostOutcomes(pkt.op) :
        LET Step(it) ==
                /\ pc' = it.m.ctl
                /\ ibuff' = it.m.ib
                /\ obuff' = it.m.ob
                /\ have_init' = it.m.have_init
                /\ handles' = it.m.handles
                /\ openfds' = it.m.fds
                /\ dirpos' = it.m.dirpos
                /\ syscalls' = it.m.calls
                /\ packet_len' = it.packet_len
                /\ outstanding' = Holds(outstanding, pkt, it)
        IN  /\ Step(Iteration(pkt, h))
            /\ p_out' = 0
            /\ out' = <<>>
            /\ req' = [pkt |-> pkt, h |-> h]
    /\ UNCHANGED <<nofile, hostdir, probe>>

\* read_input that treats the end of the stream as a read error
EndOfInputFails ==
    /\ pc = "read"
    /\ \E k \in {0, 2, 6} :
        ibuff' = IF k < 4
                 THEN [data |-> SubSeq(InitPacket(3).hdr, 1, k), pos |-> 0, count |-> k,
                       ok |-> TRUE]
                 ELSE [data |-> Poke(InitPacket(3).hdr, 0,
                                     SubSeq(InitPacket(3).body, 1, k - 4)),
                       pos |-> 0, count |-> k - 4, ok |-> TRUE]
    /\ pc' = "exit1"
    /\ UNCHANGED <<obuff, have_init, handles, openfds, dirpos, packet_len, p_out, out,
                   syscalls, req, outstanding, nofile, hostdir, probe>>

\* The stream ends (read() returns 0) after the first k bytes of a packet:
\* exit(EXIT_SUCCESS) from read_input, in the header or in the payload.
EndOfInput ==
    /\ pc = "read"
    /\ \E k \in {0, 2, 6} :
        ibuff' = IF k < 4
                 THEN [data |-> SubSeq(InitPacket(3).hdr, 1, k), pos |-> 0, count |-> k,
                       ok |-> TRUE]
                 ELSE [data |-> Poke(InitPacket(3).hdr, 0,
                                     SubSeq(InitPacket(3).body, 1, k - 4)),
                       pos |-> 0, count |-> k - 4, ok |-> TRUE]
    /\ pc' = "exit0"
    /\ UNCHANGED <<obuff, have_init, handles, openfds, dirpos, packet_len, p_out, out,
                   syscalls, req, outstanding, nofile, hostdir, probe>>

\* select() or read() on stdin fails: exit(EXIT_FAILURE)
InputError ==
    /\ pc = "read"
    /\ pc' = "exit1"
    /\ UNCHANGED <<ibuff, obuff, have_init, handles, openfds, dirpos, packet_len, p_out,
                   out, syscalls, req, outstanding, nofile, hostdir, probe>>

\* a write loop that calls write() once and does not loop on a short count
WriteOutOnce ==
    /\ pc = "send"
    /\ \E temp \in {packet_len, 4} :
        /\ temp <= packet_len
        /\ out' = out \o Peek(obuff.data, p_out, temp)
        /\ p_out' = p_out + temp
        /\ packet_len' = packet_len - temp
        /\ pc' = "done"
    /\ UNCHANGED <<ibuff, obuff, have_init, handles, openfds, dirpos, syscalls, req,
                   outstanding, nofile, hostdir, probe>>

\* One pass of the write loop: write() takes temp of the packet_len bytes
WriteOut ==
    /\ pc = "send"
    /\ \E temp \in {packet_len, 4} :
        /\ temp <= packet_len
        /\ out' = out \o Peek(obuff.data, p_out, temp)
        /\ p_out' = p_out + temp
        /\ packet_len' = packet_len - temp
        /\ pc' = IF packet_len - temp > 0 THEN "send" ELSE "done"
    /\ UNCHANGED <<ibuff, obuff, have_init, handles, openfds, dirpos, syscalls, req,
                   outstanding, nofile, hostdir, probe>>

\* select() or write() on stdout fails: exit(EXIT_FAILURE)
OutputError ==
    /\ pc = "send"
    /\ pc' = "exit1"
    /\ UNCHANGED <<ibuff, obuff, have_init, handles, openfds, dirpos, packet_len, p_out,
                   out, syscalls, req, outstanding, nofile, hostdir, probe>>

\* Back at the top of for(;;).  Nothing the finished iteration left in the
\* buffers or in main's locals is read again: read_input and main reset both
\* cursors, and every byte read afterwards is stored first.  The model
\* forgets these dead values.
NextPacket ==
    /\ pc = "done"
    /\ pc' = "read"
    /\ ibuff' = EmptyBuff
    /\ obuff' = EmptyBuff
    /\ packet_len' = 0
    /\ p_out' = 0
    /\ out' = <<>>
    /\ syscalls' = <<>>
    /\ req' = NoReq
    /\ UNCHANGED <<have_init, handles, openfds, dirpos, outstanding, nofile, hostdir, probe>>

Next == Request \/ EndOfInput \/ InputError \/ WriteOut \/ OutputError \/ NextPacket

Spec == Init /\ [][Next]_vars

\* ------------------------------------------------------------------------
\* The handle codec and the errno mapping on their own, from the state after
\* construction: the functions are applied to inputs drawn from their whole
\* range, next to the runs of the process.

\* the errno values tried: 0 .. MaxErrno
MaxErrno == 64

\* the handle table with slots 1..n in use
UsedSlots(n, use) ==
    [s \in 1..MAX_HANDLES |->
        IF s <= n
        THEN [use |-> use, fd |-> s + 2, p_dir |-> IF use = HANDLE_DIR THEN s + 2 ELSE NULL]
        ELSE [use |-> HANDLE_FREE, fd |-> 0, p_dir |-> NULL]]

\* handle_alloc_file / handle_alloc_dir on that table, for descriptor n + 3
AllocNext(n, use) ==
    IF use = HANDLE_FILE THEN handle_alloc_file(UsedSlots(n, use), n + 3)
    ELSE handle_alloc_dir(UsedSlots(n, use), n + 3, n + 3)

\* ob is what put_handle(id, alloc.handle) composed; decoded is what
\* get_handle() returns for a request carrying the string ob holds, looked up
\* in the table the allocation left
HandleProbe(use, alloc, ob) ==
    [kind |-> "handle", use |-> use, handle |-> alloc.handle, tab |-> alloc.tab, ob |-> ob,
     decoded |-> IF ob.ok
                 THEN get_handle(read_input(EmptyBuff,
                                            Peek(ob.data, 9,
                                                 4 + FromBE32(Peek(ob.data, 9, 4)))),
                                 alloc.tab).h
                 ELSE NULL]

ProbeHandle ==
    /\ pc = "read"
    /\ ~have_init
    /\ probe = NoProbe
    /\ \E n \in 0..MAX_HANDLES : \E use \in {HANDLE_FILE, HANDLE_DIR} :
        probe' = HandleProbe(use, AllocNext(n, use),
                             put_handle(put_uint32(FreshOut, 0), IdMid,
                                        AllocNext(n, use).handle))
    /\ pc' = "probe"
    /\ UNCHANGED <<ibuff, obuff, have_init, handles, openfds, dirpos, packet_len, p_out,
                   out, syscalls, req, outstanding, nofile, hostdir>>

\* errno_to_sftp(e), and the STATUS response put_status composes for it
ProbeErrno ==
    /\ pc = "read"
    /\ ~have_init
    /\ probe = NoProbe
    /\ \E e \in 0..MaxErrno :
        probe' = [kind |-> "errno", unix_error |-> e, status |-> errno_to_sftp(e),
                  ob |-> put_status(put_uint32(FreshOut, 0), IdMid, errno_to_sftp(e))]
    /\ pc' = "probe"
    /\ UNCHANGED <<ibuff, obuff, have_init, handles, openfds, dirpos, packet_len, p_out,
                   out, syscalls, req, outstanding, nofile, hostdir>>

\* a table whose slots 1..n are in use, files and directories alternating,
\* except slot hole, which a CLOSE has freed (hole = 0: none)
HoledSlots(n, hole) ==
    [s \in 1..MAX_HANDLES |->
        IF s <= n /\ s # hole
        THEN [use |-> IF s % 2 = 0 THEN HANDLE_DIR ELSE HANDLE_FILE, fd |-> s + 2,
              p_dir |-> IF s % 2 = 0 THEN s + 2 ELSE NULL]
        ELSE [use |-> HANDLE_FREE, fd |-> 0, p_dir |-> NULL]]

\* handle_alloc_file(fd) / handle_alloc_dir(fd, p_dir) applied to such a table
ProbeAlloc ==
    /\ pc = "read"
    /\ ~have_init
    /\ probe = NoProbe
    /\ \E n \in 0..MAX_HANDLES : \E hole \in 0..n : \E use \in {HANDLE_FILE, HANDLE_DIR} :
        probe' = [kind |-> "alloc", use |-> use, before |-> HoledSlots(n, hole),
                  fd |-> MAX_HANDLES + 3,
                  alloc |-> IF use = HANDLE_FILE
                            THEN handle_alloc_file(HoledSlots(n, hole), MAX_HANDLES + 3)
                            ELSE handle_alloc_dir(HoledSlots(n, hole), MAX_HANDLES + 3,
                                                  MAX_HANDLES + 3)]
    /\ pc' = "probe"
    /\ UNCHANGED <<ibuff, obuff, have_init, handles, openfds, dirpos, packet_len, p_out,
                   out, syscalls, req, outstanding, nofile, hostdir>>

\* sftp_in on the packet pkt in a process whose slot 1 holds descriptor 3
\* (a file or a directory stream), with host outcome h and directory dir
SpaceProbe(pkt, h, use, dir) ==
    [kind |-> "space", op |-> pkt.op, n |-> h.n,
     m |-> sftp_in([ib |-> read_input(get_uint32(read_input(EmptyBuff, pkt.hdr)).ib,
                                      pkt.body),
                    ob |-> put_uint32(FreshOut, 0), have_init |-> TRUE,
                    handles |-> UsedSlots(1, use), fds |-> {3},
                    dirpos |-> [d \in {3} |-> 0], calls |-> <<>>, ctl |-> "run"],
                   h, nofile, dir)]

\* the requests that fill the output buffer: a READ of 0xffffffff bytes that
\* the host serves with as many bytes as it is asked for (or one or two
\* fewer), and a READDIR of a directory that does not fit into one response
ProbeSpace ==
    /\ pc = "read"
    /\ ~have_init
    /\ probe = NoProbe
    /\ \/ \E n \in (MAX_PACKET - 15)..MAX_PACKET :
            probe' = SpaceProbe(Packet(SSH_FXP_READ, IdMid, H01,
                                       WireStr(H01) \o Offset8 \o BE32(0 - 1)),
                                [NoError EXCEPT !.n = n], HANDLE_FILE, LongDir)
       \/ probe' = SpaceProbe(Packet(SSH_FXP_READDIR, IdMid, H01, WireStr(H01)),
                              NoError, HANDLE_DIR, LongDir)
    /\ pc' = "probe"
    /\ UNCHANGED <<ibuff, obuff, have_init, handles, openfds, dirpos, packet_len, p_out,
                   out, syscalls, req, outstanding, nofile, hostdir>>

\* sftp_in on an OPENDIR of "/a" in a process whose slots 1..n hold the
\* descriptors 3..n+2, on a host where open() succeeds and fdopendir() fails
\* with e2 (0: succeeds)
ProbeOpendir ==
    /\ pc = "read"
    /\ ~have_init
    /\ probe = NoProbe
    /\ \E n \in {0, 1, MAX_HANDLES - 1, MAX_HANDLES} : \E e2 \in {0, ENOTDIR, EIO} :
        probe' = [kind |-> "opendir", n |-> n, e2 |-> e2,
                  m |-> sftp_in([ib |-> read_input(EmptyBuff,
                                                   Packet(SSH_FXP_OPENDIR, IdBig, <<>>,
                                                          WireStr(PathA)).body),
                                 ob |-> put_uint32(FreshOut, 0), have_init |-> TRUE,
                                 handles |-> UsedSlots(n, HANDLE_FILE),
                                 fds |-> 3..(n + 2), dirpos |-> << >>,
                                 calls |-> <<>>, ctl |-> "run"],
                                [NoError EXCEPT !.e2 = e2], MAX_HANDLES + MaxOpenFds,
                                SmallDir)]
    /\ pc' = "probe"
    /\ UNCHANGED <<ibuff, obuff, have_init, handles, openfds, dirpos, packet_len, p_out,
                   out, syscalls, req, outstanding, nofile, hostdir>>

NextProbe ==
    Next \/ ProbeHandle \/ ProbeErrno \/ ProbeAlloc \/ ProbeSpace \/ ProbeOpendir

SpecProbe == Init /\ [][NextProbe]_vars

\* ------------------------------------------------------------------------
\* The process on a host whose directories are LongDir: one entry takes
\* (MaxNameLen + 4) * 2 + 32 bytes of a NAME response, so not all of them fit
\* into one response.
InitLongDir ==
    /\ InitProcess
    /\ nofile = MaxOpenFds
    /\ hostdir = LongDir

SpecLongDir == InitLongDir /\ [][Next]_vars

\* ------------------------------------------------------------------------
\* The process with its handle table full: the state after INIT and
\* MAX_HANDLES successful OPEN requests on a host that allows that many
\* descriptors (and MaxOpenFds more).
InitFullTable ==
    /\ pc = "read"
    /\ ibuff = EmptyBuff
    /\ obuff = EmptyBuff
    /\ have_init = TRUE
    /\ handles = UsedSlots(MAX_HANDLES, HANDLE_FILE)
    /\ openfds = 3..(MAX_HANDLES + 2)
    /\ dirpos = << >>
    /\ packet_len = 0
    /\ p_out = 0
    /\ out = <<>>
    /\ syscalls = <<>>
    /\ req = NoReq
    /\ outstanding = {<<FormatHandle(s), HANDLE_FILE>> : s \in 1..MAX_HANDLES}
    /\ probe = NoProbe
    /\ nofile = MAX_HANDLES + MaxOpenFds
    /\ hostdir = SmallDir

SpecFullTable == InitFullTable /\ [][Next]_vars

\* ------------------------------------------------------------------------
\* Observations on a state

\* a response has been composed for the request last read
HasResponse == pc = "send" \/ (pc = "done" /\ out # <<>>)

\* the frame main's write loop writes: the bytes written and those to come
Frame == Peek(obuff.data, 0, p_out + packet_len)

\* the step reads a whole packet from stdin and handles it
RequestStep == pc = "read" /\ pc' # "exit0" /\ ibuff' # ibuff

\* the id field of the request last read, as its bytes on the wire
RequestId == Peek(req.pkt.body, 1, 4)

KnownOpcodes == {SSH_FXP_INIT} \cup (SSH_FXP_OPEN .. SSH_FXP_SYMLINK)

\* The client's decoder: the length of the frame that starts a byte string,
\* found by walking the response's fields as the protocol lays them out.
AttrsLen(bytes, off) ==
    4 + (IF HasBit(FromBE32(Peek(bytes, off, 4)), SSH_FILEXFER_ATTR_SIZE) THEN 8 ELSE 0)
      + (IF HasBit(FromBE32(Peek(bytes, off, 4)), SSH_FILEXFER_ATTR_UIDGID) THEN 8 ELSE 0)
      + (IF HasBit(FromBE32(Peek(bytes, off, 4)), SSH_FILEXFER_ATTR_PERMISSIONS)
         THEN 4 ELSE 0)
      + (IF HasBit(FromBE32(Peek(bytes, off, 4)), SSH_FILEXFER_ATTR_ACMODTIME)
         THEN 8 ELSE 0)

StringLen(bytes, off) == 4 + FromBE32(Peek(bytes, off, 4))

NameLen(bytes, off) ==
    StringLen(bytes, off) + StringLen(bytes, off + StringLen(bytes, off))
    + AttrsLen(bytes, off + StringLen(bytes, off)
                      + StringLen(bytes, off + StringLen(bytes, off)))

RECURSIVE NamesLen(_, _, _)
NamesLen(bytes, off, count) ==
    IF count <= 0 \/ off > Len(bytes) THEN 0
    ELSE NameLen(bytes, off) + NamesLen(bytes, off + NameLen(bytes, off), count - 1)

ResponseLen(bytes) ==
    CASE Peek(bytes, 4, 1) = <<SSH_FXP_VERSION>> -> 9
      [] Peek(bytes, 4, 1) = <<SSH_FXP_STATUS>> ->
            13 + StringLen(bytes, 13) + StringLen(bytes, 13 + StringLen(bytes, 13))
      [] Peek(bytes, 4, 1) \in {<<SSH_FXP_HANDLE>>, <<SSH_FXP_DATA>>} ->
            9 + StringLen(bytes, 9)
      [] Peek(bytes, 4, 1) = <<SSH_FXP_NAME>> ->
            13 + NamesLen(bytes, 13, FromBE32(Peek(bytes, 9, 4)))
      [] Peek(bytes, 4, 1) = <<SSH_FXP_ATTRS>> -> 9 + AttrsLen(bytes, 9)
      [] OTHER -> 0 - 1

\* ------------------------------------------------------------------------
\* C1 (INIT gating): as long as no INIT has been processed nothing is written
\* to stdout and no response is waiting to be written; and when the request
\* read in that state is not empty and its opcode is not INIT, the process
\* has aborted with nothing written, no host call made, nothing composed
\* behind the length placeholder and the handle table untouched.
C1_InitGating ==
    ~have_init =>
        /\ out = <<>>
        /\ pc # "send"
        /\ (req.pkt.body # <<>> /\ req.pkt.op # SSH_FXP_INIT =>
                /\ pc = "abort"
                /\ syscalls = <<>>
                /\ obuff = put_uint32(FreshOut, 0)
                /\ handles = ZeroHandles
                /\ openfds = {})

\* a first request CLOSE "01" has ended the process
C1_Witness ==
    /\ ~have_init
    /\ pc = "abort"
    /\ req.pkt.op = SSH_FXP_CLOSE
    /\ req.pkt.hs = H01
    /\ Len(req.pkt.body) > 5

\* C2 (duplicate INIT): a step that reads an INIT request when an INIT has
\* been processed ends the process with exit(EXIT_FAILURE), with nothing
\* written and no response composed behind the length placeholder, and the
\* ended process takes no further step (no later request is processed).
C2_DuplicateInit ==
    [][ /\ (RequestStep /\ have_init /\ req'.pkt.op = SSH_FXP_INIT =>
                /\ pc' = "exit1"
                /\ out' = <<>>
                /\ obuff' = put_uint32(FreshOut, 0)
                /\ UNCHANGED <<have_init, handles, openfds>>)
        /\ pc \notin {"exit0", "exit1", "abort", "hang", "crash"} ]_vars

\* a second INIT (version 3) has ended the process
C2_Witness ==
    /\ have_init
    /\ pc = "exit1"
    /\ req.pkt = InitPacket(3)
    /\ obuff = put_uint32(FreshOut, 0)
    /\ ibuff.data # <<>>

\* C3 (have_init): have_init is false initially; a step makes it true only
\* when it reads an INIT request with client version >= 3 (unsigned) and the
\* VERSION response is composed and about to be written; once true it stays
\* true.
C3_HaveInit ==
    /\ ~have_init
    /\ [][ /\ (have_init => have_init')
           /\ (~have_init /\ have_init' =>
                /\ RequestStep
                /\ req'.pkt.op = SSH_FXP_INIT
                /\ Len(req'.pkt.body) = 5
                /\ ULe(3, FromBE32(Peek(req'.pkt.body, 1, 4)))
                /\ pc' = "send"
                /\ Peek(obuff'.data, 4, 1) = <<SSH_FXP_VERSION>>) ]_vars

\* INIT with version 6 has been processed, and handling has gone on
C3_Witness ==
    /\ have_init
    /\ handles[1].use # HANDLE_FREE
    /\ pc = "read"

\* C4 (INIT response): an INIT request with client version >= 3 read before
\* any INIT was processed is answered with the frame 00 00 00 05 02 00 00 00
\* 03 whatever the version, and when the write loop ends exactly these nine
\* bytes have been written.
C4_InitResponse ==
    [][ /\ (RequestStep /\ ~have_init /\ req'.pkt.op = SSH_FXP_INIT
            /\ Len(req'.pkt.body) = 5
            /\ ULe(3, FromBE32(Peek(req'.pkt.body, 1, 4))) =>
                /\ pc' = "send"
                /\ Frame' = <<0, 0, 0, 5, 2, 0, 0, 0, 3>>)
        /\ (req.pkt.op = SSH_FXP_INIT /\ pc = "send" /\ pc' = "done" =>
                out' = <<0, 0, 0, 5, 2, 0, 0, 0, 3>>) ]_vars

\* the answer to INIT with version 0x80000001 has been written
C4_Witness ==
    /\ pc = "done"
    /\ req.pkt = InitPacket(IdBig)
    /\ out = <<0, 0, 0, 5, 2, 0, 0, 0, 3>>

\* C5 (framing): whenever a response has been composed, the first four bytes
\* of the frame are the big-endian count of the bytes that follow them, the
\* client's decoder walking the payload field by field ends exactly at the end
\* of the frame, and when the write loop ends the bytes written are the frame.
C5_Framing ==
    HasResponse =>
        /\ Len(Frame) >= 5
        /\ FromBE32(Peek(Frame, 0, 4)) = Len(Frame) - 4
        /\ ResponseLen(Frame) = Len(Frame)
        /\ \A i \in 1..Len(Frame) : Frame[i] \in 0..255
        /\ (pc = "done" => out = Frame)

\* READDIR whose loop found no entry: the NAME header was rolled back and
\* STATUS(EOF) written in its place
C5_Witness ==
    /\ pc = "done"
    /\ req.pkt.op = SSH_FXP_READDIR
    /\ Peek(out, 4, 1) = <<SSH_FXP_STATUS>>
    /\ Peek(out, 9, 4) = BE32(SSH_FX_EOF)
    /\ syscalls # <<>>

\* C6 (id echo): every STATUS, HANDLE, DATA, NAME and ATTRS response carries,
\* right after its opcode byte, the four id bytes of the request it answers.
C6_IdEcho ==
    HasResponse /\ Frame[5] \in SSH_FXP_STATUS .. SSH_FXP_ATTRS =>
        Peek(Frame, 5, 4) = RequestId

\* a NAME response to READDIR carrying the id 0x01020304
C6_Witness ==
    /\ pc = "send"
    /\ req.pkt.op = SSH_FXP_READDIR
    /\ Peek(Frame, 4, 5) = <<SSH_FXP_NAME, 1, 2, 3, 4>>

\* C7 (one reply, in order): the process is back at the top of its loop only
\* from the end of the loop body, and then either nothing was written for the
\* packet just handled or exactly one whole frame was, the one composed for
\* it; and bytes are taken from stdin only at the top of the loop.
C7_OneReplyInOrder ==
    [][ /\ (pc' = "read" =>
                /\ pc = "done"
                /\ (out = <<>> \/ (out = Frame /\ ResponseLen(out) = Len(out)
                                   /\ FromBE32(Peek(out, 0, 4)) = Len(out) - 4)))
        /\ (ibuff' # ibuff /\ pc' # "read" => pc = "read" /\ out = <<>> /\ p_out = 0) ]_vars

\* a response written in several write() calls, complete before the next read
C7_Witness ==
    /\ pc = "done"
    /\ out = Frame
    /\ Len(out) > 9
    /\ req.pkt.op = SSH_FXP_STAT

\* C8 (unknown opcode): a request read after INIT whose opcode is none of
\* INIT, OPEN..SYMLINK and which carries an id is answered with one STATUS
\* frame: that id, code 8, message "Operation unsupported", language "en";
\* handle table, descriptors and have_init are unchanged, no host call is
\* made, and the process goes on (to write the frame).
C8_UnknownOpcode ==
    [][ RequestStep /\ have_init /\ req'.pkt.op \notin KnownOpcodes
        /\ Len(req'.pkt.body) >= 5 =>
            /\ pc' = "send"
            /\ Frame' = BE32(40) \o <<SSH_FXP_STATUS>> \o Peek(req'.pkt.body, 1, 4)
                        \o <<0, 0, 0, 8>>
                        \o <<0, 0, 0, 21, 79, 112, 101, 114, 97, 116, 105, 111, 110, 32,
                             117, 110, 115, 117, 112, 112, 111, 114, 116, 101, 100>>
                        \o <<0, 0, 0, 2, 101, 110>>
            /\ syscalls' = <<>>
            /\ UNCHANGED <<have_init, handles, openfds, dirpos>> ]_vars

\* opcode 200 with id 0x80000001 answered while a handle is open
C8_Witness ==
    /\ have_init
    /\ pc = "send"
    /\ req.pkt.op = 200
    /\ req.pkt.id = IdBig
    /\ handles[1].use = HANDLE_FILE
    /\ Peek(Frame, 9, 4) = <<0, 0, 0, 8>>

\* the slots a wire handle names
SlotsNamed(hs) == {s \in 1..MAX_HANDLES : FormatHandle(s) = hs}

\* the host resource a slot holds
Resource(s) == IF handles[s].use = HANDLE_FILE THEN handles[s].fd ELSE handles[s].p_dir

\* C9 (handle bijection): every wire handle delivered in a HANDLE response
\* and not since sent in a CLOSE names exactly one slot, that slot is not
\* FREE, is of the kind the handle was opened as and holds an open host
\* resource; and two such handles never share a slot or a resource.
C9_HandleBijection ==
    /\ \A e \in outstanding :
        /\ Cardinality(SlotsNamed(e[1])) = 1
        /\ \A s \in SlotsNamed(e[1]) :
            /\ handles[s].use = e[2]
            /\ Resource(s) \in openfds
    /\ \A e1 \in outstanding : \A e2 \in outstanding :
        e1 # e2 =>
            /\ e1[1] # e2[1]
            /\ \A s1 \in SlotsNamed(e1[1]) : \A s2 \in SlotsNamed(e2[1]) :
                s1 # s2 /\ Resource(s1) # Resource(s2)

\* C10 (handle reuse): (a) a CLOSE naming an allocated slot leaves that slot
\* FREE, whatever close()/closedir() returned; (b) a well-formed request that
\* names a handle whose slot is FREE is answered with STATUS(FAILURE), makes
\* no host call and changes neither table nor descriptors; (c) a HANDLE
\* response names a slot that was FREE, now of the kind requested and holding
\* a descriptor that was not open before the request.
HandleOpcodes ==
    {SSH_FXP_CLOSE, SSH_FXP_READ, SSH_FXP_WRITE, SSH_FXP_FSTAT, SSH_FXP_FSETSTAT,
     SSH_FXP_READDIR}

C10_HandleReuse ==
    [][ RequestStep /\ have_init /\ req'.pkt \in WellFormedPackets =>
        \A s \in 1..MAX_HANDLES :
            /\ (req'.pkt.op = SSH_FXP_CLOSE /\ req'.pkt.hs = FormatHandle(s)
                /\ handles[s].use # HANDLE_FREE =>
                    /\ pc' = "send"
                    /\ handles'[s].use = HANDLE_FREE)
            /\ (req'.pkt.op \in HandleOpcodes /\ req'.pkt.hs = FormatHandle(s)
                /\ handles[s].use = HANDLE_FREE =>
                    /\ pc' = "send"
                    /\ Frame' = BE32(26) \o <<SSH_FXP_STATUS>> \o Peek(req'.pkt.body, 1, 4)
                                \o <<0, 0, 0, 4>>
                                \o <<0, 0, 0, 7, 70, 97, 105, 108, 117, 114, 101>>
                                \o <<0, 0, 0, 2, 101, 110>>
                    /\ syscalls' = <<>>
                    /\ UNCHANGED <<handles, openfds, dirpos>>)
            /\ (pc' = "send" /\ Peek(obuff'.data, 4, 1) = <<SSH_FXP_HANDLE>>
                /\ Peek(obuff'.data, 9, 6) = <<0, 0, 0, 2>> \o FormatHandle(s) =>
                    /\ handles[s].use = HANDLE_FREE
                    /\ handles'[s].use = (IF req'.pkt.op = SSH_FXP_OPEN
                                          THEN HANDLE_FILE ELSE HANDLE_DIR)
                    /\ (IF req'.pkt.op = SSH_FXP_OPEN
                        THEN handles'[s].fd ELSE handles'[s].p_dir) \in openfds' \ openfds) ]_vars

\* OPEN answered with handle "01" for a slot that held a directory stream
\* before: the slot was closed and is allocated again, to a new descriptor
C10_Witness ==
    /\ pc = "send"
    /\ req.pkt.op = SSH_FXP_OPEN
    /\ Peek(Frame, 4, 1) = <<SSH_FXP_HANDLE>>
    /\ Peek(Frame, 9, 6) = <<0, 0, 0, 2>> \o H01
    /\ handles[1].use = HANDLE_FILE
    /\ handles[1].p_dir # NULL
    /\ handles[1].fd \in openfds

\* the handle string a HANDLE frame carries, and the decimal value of a
\* two-digit string
HandleString(bytes) == Peek(bytes, 13, FromBE32(Peek(bytes, 9, 4)))

TwoDigits(hs) == Len(hs) = 2 /\ hs[1] \in 48..57 /\ hs[2] \in 48..57

DigitsValue(hs) == (hs[1] - 48) * 10 + (hs[2] - 48)

\* the slot get_handle() resolves a handle string to in table tab (0: none)
Resolve(hs, tab) == get_handle(read_input(EmptyBuff, WireStr(hs)), tab).h

\* C11 (handle wire encoding round trip): for every slot index 1..99 as the
\* allocator returns it, put_handle composes a HANDLE frame whose string is
\* exactly two ASCII digits with the index as decimal value, and get_handle
\* on that string, the slot being in use, yields the same slot; for index 0
\* (table full) put_handle emits nothing (its assert fails).  The same holds
\* of every HANDLE frame the running process composes.
C11_HandleRoundTrip ==
    /\ (probe.kind = "handle" =>
            IF probe.handle = 0 THEN ~probe.ob.ok
            ELSE /\ probe.ob.ok
                 /\ Peek(probe.ob.data, 4, 1) = <<SSH_FXP_HANDLE>>
                 /\ TwoDigits(HandleString(probe.ob.data))
                 /\ DigitsValue(HandleString(probe.ob.data)) = probe.handle
                 /\ probe.tab[probe.handle].use = probe.use
                 /\ probe.decoded = probe.handle)
    /\ (HasResponse /\ Peek(Frame, 4, 1) = <<SSH_FXP_HANDLE>> =>
            /\ TwoDigits(HandleString(Frame))
            /\ DigitsValue(HandleString(Frame)) \in 1..MAX_HANDLES
            /\ Len(Frame) = 15
            /\ handles[DigitsValue(HandleString(Frame))].use # HANDLE_FREE
            /\ Resolve(HandleString(Frame), handles) = DigitsValue(HandleString(Frame)))

\* slot 99, allocated as a directory, encoded as "99" and decoded to 99
C11_Witness ==
    /\ probe.kind = "handle"
    /\ probe.handle = MAX_HANDLES
    /\ probe.use = HANDLE_DIR
    /\ HandleString(probe.ob.data) = <<57, 57>>
    /\ probe.decoded = MAX_HANDLES

\* the response composed is STATUS with the given code
IsStatus(bytes, code) ==
    Peek(bytes, 4, 1) = <<SSH_FXP_STATUS>> /\ Peek(bytes, 9, 4) = BE32(code)

\* the handle string is one the protocol's decoding accepts in table tab
Acceptable(hs, tab) ==
    IF TwoDigits(hs) /\ DigitsValue(hs) \in 1..MAX_HANDLES
    THEN tab[DigitsValue(hs)].use # HANDLE_FREE
    ELSE FALSE

\* C12 (handle decoding rejection): a request whose handle string is not
\* exactly two ASCII digits with a value in 1..99 naming a slot in use is
\* answered with STATUS(FAILURE), with no host call and no change to the
\* handle table or the descriptors.
C12_DecodingRejection ==
    [][ RequestStep /\ have_init /\ req'.pkt \in WellFormedPackets
        /\ req'.pkt.op \in HandleOpcodes /\ ~Acceptable(req'.pkt.hs, handles) =>
            /\ pc' = "send"
            /\ IsStatus(obuff'.data, SSH_FX_FAILURE)
            /\ syscalls' = <<>>
            /\ UNCHANGED <<handles, openfds, dirpos>> ]_vars

\* the handle string is well formed (two digits) and names no slot of the
\* given kind: value 0, a FREE slot, or a slot of the other kind
NamesNo(hs, tab, kind) ==
    IF ~TwoDigits(hs) THEN FALSE
    ELSE IF DigitsValue(hs) \notin 1..MAX_HANDLES THEN TRUE
    ELSE tab[DigitsValue(hs)].use # kind

FileOpcodes == {SSH_FXP_READ, SSH_FXP_WRITE, SSH_FXP_FSTAT, SSH_FXP_FSETSTAT}

\* C13 (wrong-kind handle on file operations): READ, WRITE, FSTAT and
\* FSETSTAT naming a handle whose slot is a directory, or a handle that names
\* no slot in use, are answered with STATUS(FAILURE), make no host call at
\* all (no lseek, read, write, fstat, fchmod, futimes, fchown), and leave the
\* handle table, the descriptors and the directory streams as they were.
C13_WrongKindFileOps ==
    [][ RequestStep /\ have_init /\ req'.pkt \in WellFormedPackets
        /\ req'.pkt.op \in FileOpcodes /\ NamesNo(req'.pkt.hs, handles, HANDLE_FILE) =>
            /\ pc' = "send"
            /\ IsStatus(obuff'.data, SSH_FX_FAILURE)
            /\ syscalls' = <<>>
            /\ UNCHANGED <<handles, openfds, dirpos>> ]_vars

\* FSTAT "01" while slot 1 holds a directory stream, answered STATUS(FAILURE)
C13_Witness ==
    /\ pc = "send"
    /\ req.pkt.op = SSH_FXP_FSTAT
    /\ req.pkt.hs = H01
    /\ handles[1].use = HANDLE_DIR
    /\ handles[1].p_dir \in openfds
    /\ IsStatus(obuff.data, SSH_FX_FAILURE)
    /\ syscalls = <<>>

\* C14 (wrong-kind handle on READDIR): READDIR naming a handle whose slot
\* holds a file is answered with STATUS(FAILURE), and the slot's directory
\* stream field is passed to none of telldir, readdir, seekdir.
C14_WrongKindReaddir ==
    [][ RequestStep /\ have_init /\ req'.pkt \in WellFormedPackets
        /\ req'.pkt.op = SSH_FXP_READDIR /\ Acceptable(req'.pkt.hs, handles)
        /\ handles[DigitsValue(req'.pkt.hs)].use = HANDLE_FILE =>
            /\ pc' = "send"
            /\ IsStatus(obuff'.data, SSH_FX_FAILURE)
            /\ \A i \in DOMAIN syscalls' :
                    syscalls'[i][1] \notin {"telldir", "readdir", "seekdir"} ]_vars

\* the status code the protocol assigns to a host errno
MappedStatus(e) ==
    IF e = 0 THEN 0
    ELSE IF e \in {ENOENT, ENOTDIR, EBADF, ELOOP} THEN 2
    ELSE IF e \in {EPERM, EACCES, EFAULT} THEN 3
    ELSE IF e \in {ENAMETOOLONG, EINVAL} THEN 5
    ELSE 4

\* the host calls of the request are exactly one open(), or one open()
\* followed by close() of the descriptor it returned
OpenOnly(calls) == Len(calls) = 1 /\ calls[1][1] = "open"

OpenThenClose(calls, fd) ==
    Len(calls) = 2 /\ calls[1][1] = "open" /\ calls[2] = <<"close", fd>>

\* C15 (OPEN outcomes): when open() fails the answer is STATUS with the
\* mapped errno and table and descriptors are unchanged; when it succeeds and
\* a slot is FREE, exactly one slot changes, from FREE to FILE holding the new
\* descriptor, and the answer is HANDLE naming that slot; when it succeeds and
\* no slot is FREE, the new descriptor is closed again, the answer is
\* STATUS(FAILURE) and table and descriptors are unchanged.
C15_OpenOutcomes ==
    [][ RequestStep /\ have_init /\ req'.pkt \in WellFormedPackets
        /\ req'.pkt.op = SSH_FXP_OPEN =>
            /\ pc' = "send"
            /\ IF OpenErrno(openfds, req'.h.e1, nofile) # 0
               THEN /\ IsStatus(obuff'.data,
                                MappedStatus(OpenErrno(openfds, req'.h.e1, nofile)))
                    /\ OpenOnly(syscalls')
                    /\ UNCHANGED <<handles, openfds>>
               ELSE IF \E s \in 1..MAX_HANDLES : handles[s].use = HANDLE_FREE
               THEN /\ Peek(obuff'.data, 4, 1) = <<SSH_FXP_HANDLE>>
                    /\ OpenOnly(syscalls')
                    /\ Cardinality(openfds' \ openfds) = 1
                    /\ openfds \subseteq openfds'
                    /\ \E s \in 1..MAX_HANDLES :
                        /\ handles[s].use = HANDLE_FREE
                        /\ handles'[s].use = HANDLE_FILE
                        /\ handles'[s].fd \in openfds' \ openfds
                        /\ HandleString(obuff'.data) = FormatHandle(s)
                        /\ \A t \in 1..MAX_HANDLES \ {s} : handles'[t] = handles[t]
               ELSE /\ IsStatus(obuff'.data, SSH_FX_FAILURE)
                    /\ OpenThenClose(syscalls', NewFd(openfds))
                    /\ UNCHANGED <<handles, openfds>> ]_vars

\* OPEN with all 99 slots in use: the descriptor is closed, STATUS(FAILURE)
C15_Witness ==
    /\ pc = "send"
    /\ req.pkt.op = SSH_FXP_OPEN
    /\ \A s \in 1..MAX_HANDLES : handles[s].use # HANDLE_FREE
    /\ Cardinality(openfds) = MAX_HANDLES
    /\ IsStatus(obuff.data, SSH_FX_FAILURE)
    /\ OpenThenClose(syscalls, MAX_HANDLES + 3)

\* C16 (CLOSE): for a handle naming a slot in use, the slot is FREE after the
\* request whatever close()/closedir() returned, every other slot is as it
\* was, the one host call made is close(fd) for a FILE slot and
\* closedir(stream) for a DIR slot, and the answer is STATUS(OK) when the
\* call succeeded and STATUS(mapped errno) when it failed; for a handle
\* naming no slot in use the answer is STATUS(FAILURE), no host call is made
\* and no slot changes.
C16_Close ==
    [][ RequestStep /\ have_init /\ req'.pkt \in WellFormedPackets
        /\ req'.pkt.op = SSH_FXP_CLOSE /\ TwoDigits(req'.pkt.hs) =>
            /\ pc' = "send"
            /\ IF Acceptable(req'.pkt.hs, handles)
               THEN /\ handles'[DigitsValue(req'.pkt.hs)].use = HANDLE_FREE
                    /\ \A t \in 1..MAX_HANDLES \ {DigitsValue(req'.pkt.hs)} :
                            handles'[t] = handles[t]
                    /\ syscalls' =
                         IF handles[DigitsValue(req'.pkt.hs)].use = HANDLE_FILE
                         THEN << <<"close", handles[DigitsValue(req'.pkt.hs)].fd>> >>
                         ELSE << <<"closedir", handles[DigitsValue(req'.pkt.hs)].p_dir>> >>
                    /\ IsStatus(obuff'.data, MappedStatus(req'.h.e1))
               ELSE /\ IsStatus(obuff'.data, SSH_FX_FAILURE)
                    /\ syscalls' = <<>>
                    /\ UNCHANGED <<handles, openfds, dirpos>> ]_vars

\* CLOSE "01" on a directory slot whose closedir() failed with EBADF: the
\* slot is FREE, closedir was the only call, the answer is NO_SUCH_FILE
C16_Witness ==
    /\ pc = "send"
    /\ req.pkt.op = SSH_FXP_CLOSE
    /\ req.pkt.hs = H01
    /\ req.h.e1 = EBADF
    /\ syscalls = << <<"closedir", 3>> >>
    /\ handles[1].use = HANDLE_FREE
    /\ handles[1].p_dir = 3
    /\ IsStatus(obuff.data, SSH_FX_NO_SUCH_FILE)

\* the request last read is a well-formed one with the given opcode, naming
\* a slot that holds a file (READ, WRITE and the like leave the table alone)
OnFileHandle(op) ==
    /\ have_init
    /\ HasResponse
    /\ req.pkt \in WellFormedPackets
    /\ req.pkt.op = op
    /\ Acceptable(req.pkt.hs, handles)
    /\ handles[DigitsValue(req.pkt.hs)].use = HANDLE_FILE

\* a well-formed request with the given opcode never ends the process
Answered(op) ==
    have_init /\ req.pkt \in WellFormedPackets /\ req.pkt.op = op =>
        pc \notin {"abort", "hang", "crash"}

\* the descriptor of the slot the request names
NamedFd == handles[DigitsValue(req.pkt.hs)].fd

\* READ: the length requested, and the length after clamping to the output
\* space that remains behind the frame length (4) and the DATA header (9)
RequestedLen == FromBE32(Peek(req.pkt.body, 9 + Len(req.pkt.hs) + 8, 4))

ClampedLen ==
    IF UGt(RequestedLen, MAX_PACKET - 4 - 9) THEN MAX_PACKET - 4 - 9 ELSE RequestedLen

\* C17 (READ outcomes): on a FILE handle the host is asked to seek and then
\* to read the clamped length; a seek error or a read error is answered with
\* STATUS(mapped errno), a read of 0 bytes with STATUS(EOF), and a read of
\* n > 0 bytes with a DATA frame whose length field is n and which carries
\* exactly the n bytes read, n being at most the clamped length.
C17_ReadOutcomes ==
    /\ Answered(SSH_FXP_READ)
    /\ OnFileHandle(SSH_FXP_READ) =>
        /\ syscalls[1][1] = "lseek" /\ syscalls[1][2] = NamedFd
        /\ IF req.h.e1 # 0
           THEN Len(syscalls) = 1 /\ IsStatus(Frame, MappedStatus(req.h.e1))
           ELSE /\ Len(syscalls) = 2
                /\ syscalls[2] = <<"read", NamedFd, ClampedLen>>
                /\ IF req.h.e2 # 0 THEN IsStatus(Frame, MappedStatus(req.h.e2))
                   ELSE IF Min2(req.h.n, ClampedLen) = 0 THEN IsStatus(Frame, SSH_FX_EOF)
                   ELSE /\ Peek(Frame, 4, 1) = <<SSH_FXP_DATA>>
                        /\ Peek(Frame, 5, 4) = RequestId
                        /\ FromBE32(Peek(Frame, 9, 4)) = Min2(req.h.n, ClampedLen)
                        /\ FromBE32(Peek(Frame, 9, 4)) <= ClampedLen
                        /\ Len(Frame) = 13 + FromBE32(Peek(Frame, 9, 4))
                        /\ FromBE32(Peek(Frame, 0, 4)) = 9 + FromBE32(Peek(Frame, 9, 4))
                        /\ Peek(Frame, 13, Len(Frame) - 13)
                                = HostFileData(FromBE32(Peek(Frame, 9, 4)))

\* READ of 0xFFFFFFFF bytes on "01": the host is asked for 33987 bytes,
\* delivers MaxData, and the DATA frame carries them
C17_Witness ==
    /\ OnFileHandle(SSH_FXP_READ)
    /\ RequestedLen = 0 - 1
    /\ Len(syscalls) = 2
    /\ syscalls[2] = <<"read", 3, 33987>>
    /\ Peek(Frame, 4, 1) = <<SSH_FXP_DATA>>
    /\ Peek(Frame, 9, 4) = BE32(MaxData)
    /\ Len(Frame) = 13 + MaxData

\* WRITE: the length of the data the request carries, and the count the host
\* write returns when it does not fail
DataLen == FromBE32(Peek(req.pkt.body, 9 + Len(req.pkt.hs) + 8, 4))

Written == Min2(req.h.n, DataLen)

\* C18 (WRITE outcomes): on a FILE handle the answer is STATUS(OK) exactly
\* when the seek succeeded and write() returned the whole data length; a
\* write that returns fewer bytes without error is answered STATUS(FAILURE);
\* a seek error or write error is answered STATUS(mapped errno), and after a
\* seek error write() is not called.
C18_WriteOutcomes ==
    /\ Answered(SSH_FXP_WRITE)
    /\ OnFileHandle(SSH_FXP_WRITE) =>
        /\ Peek(Frame, 4, 1) = <<SSH_FXP_STATUS>>
        /\ syscalls[1][1] = "lseek" /\ syscalls[1][2] = NamedFd
        /\ IsStatus(Frame, SSH_FX_OK)
                <=> (req.h.e1 = 0 /\ req.h.e2 = 0 /\ Written = DataLen)
        /\ IF req.h.e1 # 0
           THEN Len(syscalls) = 1 /\ IsStatus(Frame, MappedStatus(req.h.e1))
           ELSE /\ Len(syscalls) = 2
                /\ syscalls[2][1] = "write" /\ syscalls[2][2] = NamedFd
                /\ (req.h.e2 # 0 => IsStatus(Frame, MappedStatus(req.h.e2)))
                /\ (req.h.e2 = 0 /\ Written < DataLen =>
                        IsStatus(Frame, SSH_FX_FAILURE))

\* WRITE of two bytes of which the host takes one: STATUS(FAILURE)
C18_Witness ==
    /\ OnFileHandle(SSH_FXP_WRITE)
    /\ DataLen = 2
    /\ req.h.e1 = 0 /\ req.h.e2 = 0
    /\ Written = 1
    /\ Len(syscalls) = 2
    /\ IsStatus(Frame, SSH_FX_FAILURE)

\* SETSTAT: the flags word of the attrs the request carries (behind opcode,
\* id and the path string), and the names of the host calls made
SetFlags == FromBE32(Peek(req.pkt.body, 9 + Len(PathA), 4))

CallNames == [i \in DOMAIN syscalls |-> syscalls[i][1]]

Opt(present, name) == IF present THEN <<name>> ELSE <<>>

\* C19 (SETSTAT ordering): the host calls of a SETSTAT are, in this order,
\* chmod if PERMISSIONS is set, utimes if ACMODTIME is set, chown if UIDGID
\* is set, all on the request's path; the first call that fails is the last
\* call made and the answer is STATUS(mapped errno of that call); when no
\* call fails (also when no flag is set and no call is made) the answer is
\* STATUS(OK).
C19_SetstatOrdering ==
    /\ Answered(SSH_FXP_SETSTAT)
    /\ have_init /\ HasResponse /\ req.pkt \in WellFormedPackets
       /\ req.pkt.op = SSH_FXP_SETSTAT =>
        /\ \A i \in DOMAIN syscalls : syscalls[i][2] = PathA
        /\ IF HasBit(SetFlags, SSH_FILEXFER_ATTR_PERMISSIONS) /\ req.h.e1 # 0
           THEN /\ CallNames = <<"chmod">>
                /\ IsStatus(Frame, MappedStatus(req.h.e1))
           ELSE IF HasBit(SetFlags, SSH_FILEXFER_ATTR_ACMODTIME) /\ req.h.e2 # 0
           THEN /\ CallNames
                     = Opt(HasBit(SetFlags, SSH_FILEXFER_ATTR_PERMISSIONS), "chmod")
                       \o <<"utimes">>
                /\ IsStatus(Frame, MappedStatus(req.h.e2))
           ELSE /\ CallNames
                     = Opt(HasBit(SetFlags, SSH_FILEXFER_ATTR_PERMISSIONS), "chmod")
                       \o Opt(HasBit(SetFlags, SSH_FILEXFER_ATTR_ACMODTIME), "utimes")
                       \o Opt(HasBit(SetFlags, SSH_FILEXFER_ATTR_UIDGID), "chown")
                /\ IsStatus(Frame,
                            IF HasBit(SetFlags, SSH_FILEXFER_ATTR_UIDGID)
                            THEN MappedStatus(req.h.e3) ELSE SSH_FX_OK)

\* SETSTAT with all three flags whose utimes() fails with EACCES: chmod and
\* utimes were called, chown was not, the answer is PERMISSION_DENIED
C19_Witness ==
    /\ have_init /\ HasResponse
    /\ req.pkt.op = SSH_FXP_SETSTAT
    /\ SetFlags = 14
    /\ req.h.e2 = EACCES
    /\ CallNames = <<"chmod", "utimes">>
    /\ IsStatus(Frame, SSH_FX_PERMISSION_DENIED)

\* the status codes a response may carry: OK, EOF, NO_SUCH_FILE,
\* PERMISSION_DENIED, FAILURE, BAD_MESSAGE, OP_UNSUPPORTED
EmittedCodes == {0, 1, 2, 3, 4, 5, 8}

\* C20 (errno mapping): errno_to_sftp maps 0 to OK, ENOENT/ENOTDIR/EBADF/
\* ELOOP to NO_SUCH_FILE, EPERM/EACCES/EFAULT to PERMISSION_DENIED,
\* ENAMETOOLONG/EINVAL to BAD_MESSAGE and every other errno to FAILURE, and
\* the STATUS frame composed for it carries that code; the status code of
\* every STATUS response of the process is one of 0, 1, 2, 3, 4, 5, 8, never
\* NO_CONNECTION (6) or CONNECTION_LOST (7).
C20_ErrnoMapping ==
    /\ (probe.kind = "errno" =>
            /\ probe.status = MappedStatus(probe.unix_error)
            /\ probe.status \in EmittedCodes \ {1, 8}
            /\ probe.ob.ok
            /\ IsStatus(probe.ob.data, MappedStatus(probe.unix_error)))
    /\ (HasResponse /\ Peek(Frame, 4, 1) = <<SSH_FXP_STATUS>> =>
            /\ FromBE32(Peek(Frame, 9, 4)) \in EmittedCodes
            /\ \A e \in {req.h.e1, req.h.e2, req.h.e3} \ {0} :
                    e \in 1..MaxErrno)

\* ELOOP (40) mapped to NO_SUCH_FILE and composed into a STATUS frame
C20_Witness ==
    /\ probe.kind = "errno"
    /\ probe.unix_error = ELOOP
    /\ probe.status = SSH_FX_NO_SUCH_FILE
    /\ Peek(probe.ob.data, 9, 4) = <<0, 0, 0, 2>>

\* C21 (empty payload): a frame whose length header is 0 is answered with
\* nothing: no byte is written, no host call is made, have_init, the handle
\* table, the descriptors and the directory streams stay as they were,
\* before INIT as well as after it; and the process goes on to read the next
\* frame.
C21_EmptyPayload ==
    [][ /\ (RequestStep /\ req'.pkt = EmptyPacket =>
                /\ pc' = "done"
                /\ out' = <<>>
                /\ packet_len' = 4
                /\ syscalls' = <<>>
                /\ UNCHANGED <<have_init, handles, openfds, dirpos>>)
        /\ (pc = "done" /\ req.pkt = EmptyPacket =>
                /\ pc' = "read"
                /\ out' = <<>>
                /\ UNCHANGED <<have_init, handles, openfds, dirpos>>) ]_vars

\* an empty frame taken before INIT, nothing written
C21_Witness ==
    /\ pc = "done"
    /\ req.pkt = EmptyPacket
    /\ ibuff.data = <<0, 0, 0, 0>>
    /\ ~have_init
    /\ out = <<>>

\* the process has ended
Ended == {"exit0", "exit1", "abort", "hang", "crash"}

OnDirHandle ==
    /\ have_init
    /\ req.pkt \in WellFormedPackets
    /\ req.pkt.op = SSH_FXP_READDIR
    /\ Acceptable(req.pkt.hs, handles)
    /\ handles[DigitsValue(req.pkt.hs)].use = HANDLE_DIR

\* C23 (READDIR termination): a READDIR on a directory handle finishes its
\* loop over the (finite) directory and is answered with one response, NAME
\* or STATUS, also when an entry does not fit into the output space that
\* remains after entries have been written.
C23_ReaddirTermination ==
    OnDirHandle =>
        /\ pc \notin {"hang", "abort", "crash"}
        /\ (HasResponse => Peek(Frame, 4, 1) \in {<<SSH_FXP_NAME>>, <<SSH_FXP_STATUS>>})

\* the directory stream of the slot a request names, the bytes one entry of
\* the long directory takes in a NAME response (name and long name as
\* strings, attrs of 32 bytes), and the number of such entries that fit
\* behind the frame length, opcode, id and count
NamedDir(hs) == handles[DigitsValue(hs)].p_dir

LongEntryBytes == (MaxNameLen + 4) * 2 + MAX_ATTRS_BYTES

LongEntriesFit == (MAX_PACKET - 13) \div LongEntryBytes

\* C24 (READDIR resumption): when an entry does not fit into the output
\* space that remains and entries have been written, the request ends with a
\* NAME response carrying the entries written so far, and the stream is left
\* at the entry that did not fit, so that the next READDIR on the handle
\* starts with it.  (On the long directory: a READDIR finding more entries
\* ahead than fit answers NAME with as many as fit, starting at the entry the
\* stream stood at, and advances the stream by that many.)
C24_ReaddirResumption ==
    [][ RequestStep /\ have_init /\ req'.pkt \in WellFormedPackets
        /\ req'.pkt.op = SSH_FXP_READDIR /\ Acceptable(req'.pkt.hs, handles)
        /\ handles[DigitsValue(req'.pkt.hs)].use = HANDLE_DIR
        /\ hostdir = LongDir
        /\ Len(hostdir) - dirpos[NamedDir(req'.pkt.hs)] > LongEntriesFit =>
            /\ pc' = "send"
            /\ Peek(obuff'.data, 4, 1) = <<SSH_FXP_NAME>>
            /\ FromBE32(Peek(obuff'.data, 9, 4)) = LongEntriesFit
            /\ Peek(obuff'.data, 17, MaxNameLen)
                    = hostdir[dirpos[NamedDir(req'.pkt.hs)] + 1].d_name
            /\ dirpos'[NamedDir(req'.pkt.hs)]
                    = dirpos[NamedDir(req'.pkt.hs)] + LongEntriesFit
            /\ UNCHANGED <<handles, openfds>> ]_vars

\* the entries of the host's directory from stream position pos on that can
\* be stat-ed, and the first of them
StatableAhead(pos) == {i \in (pos + 1)..Len(hostdir) : hostdir[i].stat_ok}

FirstAhead(pos) == CHOOSE i \in StatableAhead(pos) : \A j \in StatableAhead(pos) : i <= j

\* C25 (READDIR two-phase EOF and count): on a directory handle whose
\* entries fit into one response, a READDIR with entries ahead that can be
\* stat-ed is answered NAME, its count field the number of those entries and
\* of the (name, long name, attrs) triples the frame holds, the first of them
\* first, and leaves the stream at the end; a READDIR with no such entry
\* ahead (every READDIR after that one) is answered with a frame that is
\* STATUS(EOF) and nothing else; a NAME response never has count 0.
C25_ReaddirTwoPhase ==
    [][ RequestStep /\ have_init /\ req'.pkt \in WellFormedPackets
        /\ req'.pkt.op = SSH_FXP_READDIR /\ Acceptable(req'.pkt.hs, handles)
        /\ handles[DigitsValue(req'.pkt.hs)].use = HANDLE_DIR =>
            /\ pc' = "send"
            /\ ResponseLen(Frame') = Len(Frame')
            /\ Peek(Frame', 5, 4) = Peek(req'.pkt.body, 1, 4)
            /\ dirpos'[NamedDir(req'.pkt.hs)] = Len(hostdir)
            /\ UNCHANGED <<handles, openfds>>
            /\ IF StatableAhead(dirpos[NamedDir(req'.pkt.hs)]) = {}
               THEN IsStatus(Frame', SSH_FX_EOF)
               ELSE /\ Peek(Frame', 4, 1) = <<SSH_FXP_NAME>>
                    /\ FromBE32(Peek(Frame', 9, 4))
                            = Cardinality(StatableAhead(dirpos[NamedDir(req'.pkt.hs)]))
                    /\ FromBE32(Peek(Frame', 9, 4)) # 0
                    /\ Peek(Frame', 17, FromBE32(Peek(Frame', 13, 4)))
                            = hostdir[FirstAhead(dirpos[NamedDir(req'.pkt.hs)])].d_name ]_vars

\* the second READDIR on a handle: the stream stands at the end and the
\* answer is STATUS(EOF)
C25_Witness ==
    /\ OnDirHandle
    /\ pc = "send"
    /\ dirpos[NamedDir(req.pkt.hs)] = Len(hostdir)
    /\ syscalls = << <<"telldir", NamedDir(req.pkt.hs)>> >>
    /\ IsStatus(Frame, SSH_FX_EOF)
    /\ ResponseLen(Frame) = Len(Frame)

\* the slots of table tab that are in use and hold descriptor fd
HeldBy(tab, fd) == {i \in 1..MAX_HANDLES : tab[i].use # HANDLE_FREE /\ tab[i].fd = fd}

\* every open descriptor is held by exactly one slot in use, every open
\* directory stream by a DIR slot
Conserved(tab, fds, streams) ==
    /\ \A fd \in fds : Cardinality(HeldBy(tab, fd)) = 1
    /\ \A d \in DOMAIN streams :
            \E i \in 1..MAX_HANDLES : tab[i].use = HANDLE_DIR /\ tab[i].p_dir = d

\* C26 (resource conservation): whenever the process is between requests or
\* sending a response, every descriptor it holds open is held by exactly one
\* slot in use, and every open directory stream by a DIR slot; the same
\* after an OPENDIR on a host whose fdopendir() fails, or with the table full.
C26_ResourceConservation ==
    /\ (pc \in {"read", "send", "done"} => Conserved(handles, openfds, dirpos))
    /\ (probe.kind = "opendir" =>
            Conserved(probe.m.handles, probe.m.fds, probe.m.dirpos))

\* the free slots of a table
FreeSlots(tab) == {i \in 1..MAX_HANDLES : tab[i].use = HANDLE_FREE}

\* C27 (first-fit allocation): handle_alloc_file and handle_alloc_dir return
\* the 1-based index of the lowest FREE slot, set that slot (use, fd, and
\* p_dir for a directory) and no other; they return 0 exactly when no slot
\* is FREE, and then change nothing.
C27_FirstFit ==
    probe.kind = "alloc" =>
        /\ (probe.alloc.handle = 0 <=> FreeSlots(probe.before) = {})
        /\ (probe.alloc.handle = 0 => probe.alloc.tab = probe.before)
        /\ (probe.alloc.handle # 0 =>
                /\ probe.alloc.handle \in FreeSlots(probe.before)
                /\ \A j \in FreeSlots(probe.before) : probe.alloc.handle <= j
                /\ probe.alloc.tab[probe.alloc.handle].use = probe.use
                /\ probe.alloc.tab[probe.alloc.handle].fd = probe.fd
                /\ (probe.use = HANDLE_DIR =>
                        probe.alloc.tab[probe.alloc.handle].p_dir = probe.fd)
                /\ \A j \in 1..MAX_HANDLES \ {probe.alloc.handle} :
                        probe.alloc.tab[j] = probe.before[j])

\* a directory allocated into the hole a CLOSE left below slots in use
C27_Witness ==
    /\ probe.kind = "alloc"
    /\ probe.use = HANDLE_DIR
    /\ probe.alloc.handle = 2
    /\ probe.before[3].use = HANDLE_FILE
    /\ Cardinality(FreeSlots(probe.before)) > 1
    /\ probe.alloc.tab[2] = [use |-> HANDLE_DIR, fd |-> probe.fd, p_dir |-> probe.fd]

\* the attrs an OPEN request ends with carry the permissions field
CarriesPermissions ==
    /\ Len(req.pkt.body) >= 8
    /\ Peek(req.pkt.body, Len(req.pkt.body) - 8, 4) = BE32(SSH_FILEXFER_ATTR_PERMISSIONS)

\* the permissions field of those attrs
RequestedPermissions == FromBE32(Peek(req.pkt.body, Len(req.pkt.body) - 4, 4))

\* C28 (OPEN mode): the mode OPEN hands to open() is the permissions field
\* of the request reduced to its low nine bits (PERM_MASK) when the request
\* carries one, and DEFAULT_FILE_PERM otherwise.
C28_OpenMode ==
    pc = "send" /\ have_init /\ req.pkt \in WellFormedPackets /\ req.pkt.op = SSH_FXP_OPEN =>
        /\ Len(syscalls) >= 1
        /\ syscalls[1][1] = "open"
        /\ syscalls[1][4] \in 0..PERM_MASK
        /\ syscalls[1][4] = IF CarriesPermissions
                             THEN RequestedPermissions % (PERM_MASK + 1)
                             ELSE DEFAULT_FILE_PERM

\* the write cursor of an output buffer is inside the buffer, the count of
\* bytes left is not negative, and no put_* has found too little space
SpaceKept(ob) ==
    /\ ob.ok
    /\ ob.pos \in 0..MAX_PACKET
    /\ ob.count \in 0..MAX_PACKET
    /\ ob.pos + ob.count <= MAX_PACKET
    /\ Len(ob.data) <= MAX_PACKET

ChangedSlots == {s \in 1..MAX_HANDLES : handles'[s] # handles[s]}

\* C30 (handle-table frame): a step changes the handle table only when it
\* handles an OPEN or OPENDIR that is answered HANDLE, and then exactly one
\* slot changes, from FREE to FILE or DIR; or when it handles a CLOSE whose
\* handle string get_handle resolves, and then exactly the slot it names
\* becomes FREE, whatever status the CLOSE is answered with.  Every other
\* step, and every other request answered STATUS, leaves the table as it is.
C30_TableFrame ==
    [][ /\ (handles' # handles =>
                /\ RequestStep /\ have_init /\ pc' = "send"
                /\ \/ /\ req'.pkt.op \in {SSH_FXP_OPEN, SSH_FXP_OPENDIR}
                      /\ Peek(obuff'.data, 4, 1) = <<SSH_FXP_HANDLE>>
                      /\ \E s \in 1..MAX_HANDLES :
                            /\ ChangedSlots = {s}
                            /\ handles[s].use = HANDLE_FREE
                            /\ handles'[s].use = IF req'.pkt.op = SSH_FXP_OPEN
                                                 THEN HANDLE_FILE ELSE HANDLE_DIR
                   \/ /\ req'.pkt.op = SSH_FXP_CLOSE
                      /\ Resolve(req'.pkt.hs, handles) # 0
                      /\ ChangedSlots = {Resolve(req'.pkt.hs, handles)}
                      /\ handles[Resolve(req'.pkt.hs, handles)].use # HANDLE_FREE
                      /\ handles'[Resolve(req'.pkt.hs, handles)].use = HANDLE_FREE)
        /\ (RequestStep /\ have_init /\ req'.pkt \in WellFormedPackets
            /\ req'.pkt.op = SSH_FXP_CLOSE /\ Acceptable(req'.pkt.hs, handles) =>
                handles' = [handles EXCEPT ![DigitsValue(req'.pkt.hs)].use = HANDLE_FREE])
        /\ (RequestStep /\ pc' = "send" /\ Peek(obuff'.data, 4, 1) = <<SSH_FXP_HANDLE>> =>
                Cardinality(ChangedSlots) = 1)
        /\ (RequestStep /\ pc' = "send" /\ req'.pkt.op # SSH_FXP_CLOSE
            /\ Peek(obuff'.data, 4, 1) = <<SSH_FXP_STATUS>> => handles' = handles) ]_vars

\* CLOSE of handle "01" answered with an error status while slot 2 is in
\* use: slot 1 is FREE, slot 2 as it was
C30_Witness ==
    /\ pc = "send"
    /\ req.pkt.op = SSH_FXP_CLOSE
    /\ req.pkt.hs = H01
    /\ req.h.e1 = EIO
    /\ Len(syscalls) = 1
    /\ IsStatus(obuff.data, SSH_FX_FAILURE)
    /\ handles[1].use = HANDLE_FREE
    /\ handles[2].use # HANDLE_FREE
    /\ handles[2].fd \in openfds

\* C31 (input bound): when a request has been read and handled, the read
\* cursor of the input buffer plus the count of bytes left is the end of the
\* request's payload and the cursor has not passed it; a request whose
\* payload ends before the fields its handler parses, or one of whose
\* strings is longer than the bytes left, aborts the process at the failing
\* assert, with no host call, no response, and table and descriptors as
\* they were.
C31_InputBound ==
    [][ /\ (RequestStep /\ req'.pkt \in WellFormedPackets \cup ShortPackets =>
                /\ ibuff'.pos + ibuff'.count = Len(req'.pkt.body)
                /\ ibuff'.pos \in 0..Len(req'.pkt.body)
                /\ ibuff'.count \in 0..Len(req'.pkt.body))
        /\ (RequestStep /\ req'.pkt \in ShortPackets
            /\ (have_init => req'.pkt.op # SSH_FXP_INIT) =>
                /\ pc' = "abort"
                /\ syscalls' = <<>>
                /\ out' = <<>>
                /\ (have_init => ~ibuff'.ok)
                /\ UNCHANGED <<have_init, handles, openfds, dirpos, outstanding>>) ]_vars

\* the WRITE whose data length exceeds the payload, sent for an open file:
\* the process has aborted in get_data, nothing was written
C31_Witness ==
    /\ pc = "abort"
    /\ have_init
    /\ req.pkt = ShortWrite
    /\ handles[1].use = HANDLE_FILE
    /\ ~ibuff.ok
    /\ ibuff.pos = Len(ShortWrite.body) - 2
    /\ ibuff.count = 2
    /\ syscalls = <<>>
    /\ out = <<>>

====
